---- MODULE Spec2Model ----
(***************************************************************************)
(* Model of the two storage engines of the MCP server:                     *)
(*   - ContextManager (src/app/core/context_manager.py): the in-memory     *)
(*     key/value store with TTLs, its local cache and its snapshot file;   *)
(*   - FileManager (src/app/core/file_manager.py): uploads, metadata       *)
(*     records, deletion and the directory scan.                           *)
(* Spec is the context engine, FileSpec the file engine.                   *)
(***************************************************************************)
EXTENDS Integers, Sequences, FiniteSets, TLC

(***************************************************************************)
(* Bounds of the model and program constants.                              *)
(***************************************************************************)
MaxTime == 3            \* the clock stops advancing here
MaxEvents == 1          \* events that reach a queue in one behaviour
MaxOps == 2             \* longest operations list given to bulk_operation
max_cache_size == 2     \* ContextManager(max_cache_size=...), kept small
cache_ttl == 3          \* ContextManager(cache_ttl=...), kept small

Keys == {<<1>>, <<1, 2>>}
Values == {"v1"}
None == "None"
\* ttl argument of set_context: <<>> is ttl=None, <<n>> is ttl=n
TtlInputs == {<<>>, <<0>>, <<1>>}

VARIABLES
    context_store,   \* self._context_store: key -> item
    ttl_store,       \* self._ttl_store: key -> absolute expiry
    cache,           \* self._cache, in dict insertion order
    lock,            \* self._lock is held (by a get that never releases it)
    now,             \* time.time()
    context_json,    \* the snapshot file context.json: <<>> when missing, else <<snapshot>>
    lastGet          \* the ContextManager call that has just returned, if any

VARIABLES
    subscriptions,   \* self._subscriptions: key_prefix -> set of queues
    queues,          \* queue -> the events waiting in that asyncio.Queue
    streams,         \* queue -> the subscribe_to_changes generator that owns it
    nextEvent        \* number of the next event that reaches a queue

busVars == <<subscriptions, queues, streams, nextEvent>>

VARIABLE
    redis            \* the remote cache tier: <<>> when no redis_url is configured,
                     \* else <<its "context:<key>" entries>>

VARIABLES
    is_running,        \* self._is_running
    cleanup_task,      \* where the _cleanup_expired_loop task stands
    persistence_task,  \* where the _persistence_loop task stands
    shutdown_call      \* where the call of shutdown() stands

VARIABLES
    calls,             \* per request handler: the set_context or delete_context call in progress
    lock_waiters,      \* self._lock._waiters: the tasks waiting for the store lock, oldest first
    applied            \* the changes made to the store, in the order they were made

callVars == <<calls, lock_waiters, applied>>

taskVars == <<is_running, cleanup_task, persistence_task, shutdown_call, callVars>>

ctxVars == <<context_store, ttl_store, cache, lock, now, context_json, lastGet, busVars, redis,
             taskVars>>

VARIABLES
    blobs, versions, metadata, tmp,
    up,        \* per handler: the upload_file call in progress
    nextId,    \* next uuid4
    clock,     \* time.time() as seen by FileMetadata timestamps
    done,      \* upload id -> how that upload_file call ended (ids follow start order)
    lastOp     \* outcome of the last call that changed no upload

fileVars == <<blobs, versions, metadata, tmp, up, nextId, clock, done, lastOp>>

(***************************************************************************)
(* Python dict helpers.                                                    *)
(***************************************************************************)
EmptyDict == [x \in {} |-> None]

Put(d, k, v) == [x \in DOMAIN d \cup {k} |-> IF x = k THEN v ELSE d[x]]

Drop(d, k) == [x \in DOMAIN d \ {k} |-> d[x]]

MaxOf(a, b) == IF a >= b THEN a ELSE b

\* str.startswith
IsPrefix(pre, str) == Len(pre) <= Len(str) /\ SubSeq(str, 1, Len(pre)) = pre

(***************************************************************************)
(* The local cache tier: a dict key -> (value, expiry), kept here as the   *)
(* sequence of its items in insertion order.                               *)
(***************************************************************************)
CacheKeys(c) == {c[i].key : i \in 1..Len(c)}

CacheIndex(c, k) == CHOOSE i \in 1..Len(c) : c[i].key = k

RemoveAt(s, i) == SubSeq(s, 1, i - 1) \o SubSeq(s, i + 1, Len(s))

\* mutant of OldestIndex: the item that entered the dict last
OldestIndex_Last(c) == Len(c)

\* index of the first item with the smallest expiry (sorted() is stable)
OldestIndex(c) ==
    CHOOSE i \in 1..Len(c) :
        /\ \A j \in 1..Len(c) : c[i].expiry <= c[j].expiry
        /\ \A j \in 1..(i - 1) : c[j].expiry > c[i].expiry

RECURSIVE EvictOldest(_, _)
EvictOldest(c, n) ==
    IF n = 0 \/ c = <<>> THEN c
    ELSE EvictOldest(RemoveAt(c, OldestIndex(c)), n - 1)

\* mutant of CacheDelete: the entry is left in the cache
CacheDelete_Kept(c, k) == c

\* _delete_from_cache (Redis disabled)
CacheDelete(c, k) ==
    IF k \in CacheKeys(c) THEN RemoveAt(c, CacheIndex(c, k)) ELSE c

\* _update_cache (Redis disabled)
CacheUpdate(c, k, v, t) ==
    LET expiry == t + cache_ttl
        items_to_remove == MaxOf(1, max_cache_size \div 10)
        c1 == IF Len(c) >= max_cache_size THEN EvictOldest(c, items_to_remove) ELSE c
        item == [key |-> k, value |-> v, expiry |-> expiry]
    IN  IF k \in CacheKeys(c1)
        THEN [c1 EXCEPT ![CacheIndex(c1, k)] = item]
        ELSE Append(c1, item)

\* _get_from_cache (Redis disabled): the value returned and the cache left behind
CacheHit(c, k, t) == k \in CacheKeys(c) /\ c[CacheIndex(c, k)].expiry > t

CacheAfterGet(c, k, t) ==
    IF k \in CacheKeys(c) /\ ~CacheHit(c, k, t) THEN CacheDelete(c, k) ELSE c

(***************************************************************************)
(* The remote cache tier.  Every call to Redis either succeeds or raises;  *)
(* the exception is caught and logged by the cache method that made the    *)
(* call.  ok tells which.                                                  *)
(***************************************************************************)
RedisOutcomes == IF redis = <<>> THEN {TRUE} ELSE BOOLEAN

\* self._redis.get in _get_from_cache: the value served, None for a miss
RedisGet(r, k, t, ok) ==
    IF r = <<>> \/ ~ok THEN None
    ELSE IF k \in DOMAIN r[1] /\ r[1][k].expiry > t THEN r[1][k].value
    ELSE None

\* self._redis.setex in _update_cache
RedisSetex(r, k, v, t, ok) ==
    IF r = <<>> \/ ~ok THEN r
    ELSE <<Put(r[1], k, [value |-> v, expiry |-> t + cache_ttl])>>

\* self._redis.delete in _delete_from_cache
RedisDelete(r, k, ok) ==
    IF r = <<>> \/ ~ok \/ k \notin DOMAIN r[1] THEN r
    ELSE <<Drop(r[1], k)>>

(***************************************************************************)
(* ContextItem validation (pydantic_models.py): ttl is None or >= 1.       *)
(***************************************************************************)
ContextItemValid(ttl) == ttl = <<>> \/ ttl[1] >= 1

NoCall == [op |-> "none"]

\* a background task between two iterations, in its asyncio.sleep
Sleeping == [pc |-> "sleep"]

NotCalled == [pc |-> "none"]

\* the coroutines that serve requests at the same time
Handlers == {1, 2}

Idle == [pc |-> "idle"]

CtxInit ==
    /\ context_store = EmptyDict
    /\ ttl_store = EmptyDict
    /\ cache = <<>>
    /\ lock = FALSE
    /\ now = 0
    /\ context_json = <<>>
    /\ lastGet = NoCall
    /\ subscriptions = EmptyDict
    /\ queues = EmptyDict
    /\ streams = EmptyDict
    /\ nextEvent = 1
    /\ redis = <<>>
    /\ is_running = TRUE
    /\ cleanup_task = Sleeping
    /\ persistence_task = Sleeping
    /\ shutdown_call = NotCalled
    /\ calls = [h \in Handlers |-> Idle]
    /\ lock_waiters = <<>>
    /\ applied = <<>>

(***************************************************************************)
(* Events and _notify_subscribers.  An event carries its type, the         *)
(* operation and key of its data and, standing for its correlation_id, a   *)
(* number; numbers are given out only to events that reach a queue.        *)
(* queue.put on an unbounded asyncio.Queue never suspends.                 *)
(***************************************************************************)
Event(id, operation, key) ==
    [event_type |-> "context_change", operation |-> operation, key |-> key, id |-> id]

\* mutant of Matching: the prefix test is dropped
Matching_Every(subs, key) == UNION {subs[p] : p \in DOMAIN subs}

\* the queues registered under a prefix that `key.startswith(prefix) or not prefix`
Matching(subs, key) ==
    UNION {subs[p] : p \in {x \in DOMAIN subs : IsPrefix(x, key) \/ x = <<>>}}

\* bus = [queues, next, sent]: the queues, the next event number and the
\* <<operation, key>> of every _notify_subscribers call made so far by the
\* running operation
Bus == [queues |-> queues, next |-> nextEvent, sent |-> <<>>]

Notified(bus, subs, key, operation) ==
    IF Matching(subs, key) = {} THEN [bus EXCEPT !.sent = Append(@, <<operation, key>>)]
    ELSE [queues |-> [q \in DOMAIN bus.queues |->
                        IF q \in Matching(subs, key)
                        THEN Append(bus.queues[q], Event(bus.next, operation, key))
                        ELSE bus.queues[q]],
          next |-> bus.next + 1,
          sent |-> Append(bus.sent, <<operation, key>>)]

\* keeps the number of events in one behaviour finite
CanNotify == nextEvent <= MaxEvents

(***************************************************************************)
(* set_context.  Validation happens before the lock is taken; the body     *)
(* under the lock has no suspension point when Redis is disabled and no    *)
(* subscriber queue is registered.                                         *)
(***************************************************************************)
\* mutant of TtlAfterSet: an expiry left by an earlier set is not cleared
TtlAfterSet_Kept(ts, k, ttl, t) ==
    IF ttl # <<>> /\ ttl[1] > 0 THEN Put(ts, k, t + ttl[1]) ELSE ts

TtlAfterSet(ts, k, ttl, t) ==
    IF ttl # <<>> /\ ttl[1] > 0 THEN Put(ts, k, t + ttl[1])
    ELSE IF k \in DOMAIN ts THEN Drop(ts, k)
    ELSE ts

\* what a set_context call returned, and the expiry the key had at the call
SetRecord(k, ttl, result) ==
    [op |-> "set", key |-> k, ttl |-> ttl, result |-> result,
     expiry_before |-> IF k \in DOMAIN ttl_store THEN <<ttl_store[k]>> ELSE <<>>,
     stored_before |-> k \in DOMAIN context_store]

\* st = <<context_store, ttl_store, cache, bus>> before and after the body
\* of set_context under the lock; the item also holds metadata and
\* timestamps, with_ttl records whether this set asked for an expiry
Stored(st, k, v, ttl, notify) ==
    <<Put(st[1], k, [value |-> v, with_ttl |-> (ttl # <<>>)]),
      TtlAfterSet(st[2], k, ttl, now),
      CacheUpdate(st[3], k, v, now),
      IF notify THEN Notified(st[4], subscriptions, k, "set") ELSE st[4]>>

SetContext(k, v, ttl) ==
    /\ UNCHANGED fileVars
    /\ IF ~ContextItemValid(ttl)
       THEN \* ValidationError: returns False
            /\ lastGet' = SetRecord(k, ttl, FALSE)
            /\ UNCHANGED <<context_store, ttl_store, cache, lock, now, context_json, taskVars, busVars,
                           redis>>
       ELSE /\ ~lock
            /\ CanNotify
            /\ \E ok \in RedisOutcomes : redis' = RedisSetex(redis, k, v, now, ok)
            /\ \E st \in {Stored(<<context_store, ttl_store, cache, Bus>>, k, v, ttl, TRUE)} :
                /\ context_store' = st[1]
                /\ ttl_store' = st[2]
                /\ cache' = st[3]
                /\ queues' = st[4].queues
                /\ nextEvent' = st[4].next
            /\ lastGet' = SetRecord(k, ttl, TRUE)
            /\ UNCHANGED <<lock, now, context_json, taskVars, subscriptions, streams>>

(***************************************************************************)
(* _delete_context: the state left by one call on key k.                   *)
(***************************************************************************)
\* mutant of TtlAfterDelete: the TTL entry is left behind
TtlAfterDelete_Kept(ts, k) == ts

TtlAfterDelete(ts, k) == IF k \in DOMAIN ts THEN Drop(ts, k) ELSE ts

\* st = <<context_store, ttl_store, cache, bus>> before and after the call
Deleted(st, k, notify) ==
    IF k \notin DOMAIN st[1] THEN st
    ELSE <<Drop(st[1], k), TtlAfterDelete(st[2], k), CacheDelete(st[3], k),
           IF notify THEN Notified(st[4], subscriptions, k, "delete") ELSE st[4]>>

\* the value _delete_context returns: False at line 298, True at line 325
Found(st, k) == k \in DOMAIN st[1]

\* what a delete_context call returned, the events it sent and where the
\* key was at the call
DeleteRecord(k, result, sent) ==
    [op |-> "delete", key |-> k, result |-> result, sent |-> sent,
     stored_before |-> k \in DOMAIN context_store,
     had_ttl |-> k \in DOMAIN ttl_store,
     was_cached |-> k \in CacheKeys(cache)]

\* delete_context(key): _delete_context(key, notify=True)
DeleteContext(k) ==
    /\ UNCHANGED fileVars
    /\ ~lock
    /\ CanNotify
    /\ \E st \in {Deleted(<<context_store, ttl_store, cache, Bus>>, k, TRUE)} :
        /\ context_store' = st[1]
        /\ ttl_store' = st[2]
        /\ cache' = st[3]
        /\ queues' = st[4].queues
        /\ nextEvent' = st[4].next
        /\ lastGet' = DeleteRecord(k, Found(<<context_store>>, k), st[4].sent)
    /\ \E ok \in RedisOutcomes :
            redis' = IF Found(<<context_store>>, k) THEN RedisDelete(redis, k, ok) ELSE redis
    /\ UNCHANGED <<lock, now, context_json, taskVars, subscriptions, streams>>

(***************************************************************************)
(* get_context(key, use_cache), the definition at lines 246-280.           *)
(* The record left in lastGet keeps what the store held at the call.       *)
(***************************************************************************)
GetRecord(k, use_cache, hit, result) ==
    [op |-> "get", key |-> k, use_cache |-> use_cache, hit |-> hit, result |-> result,
     value |-> IF k \in DOMAIN context_store THEN context_store[k].value ELSE None,
     has_ttl |-> k \in DOMAIN ttl_store,
     before_expiry |-> k \in DOMAIN ttl_store /\ now < ttl_store[k],
     after_expiry |-> k \in DOMAIN ttl_store /\ ttl_store[k] < now]

\* a get_context call that has taken the store lock and will not return
Pending(k, use_cache) == [op |-> "get_pending", key |-> k, use_cache |-> use_cache]

GetContext(k, use_cache) ==
    /\ UNCHANGED fileVars
    /\ \E got \in RedisOutcomes :
       LET remote == IF use_cache THEN RedisGet(redis, k, now, got) ELSE None IN
       IF remote # None
       THEN \* served from the remote tier
            /\ lastGet' = GetRecord(k, use_cache, TRUE, remote)
            /\ UNCHANGED <<context_store, ttl_store, cache, lock, now, context_json, taskVars, busVars,
                           redis>>
       ELSE IF use_cache /\ CacheHit(cache, k, now)
       THEN \* served from the local cache, the store is not consulted
            /\ lastGet' = GetRecord(k, use_cache, TRUE, cache[CacheIndex(cache, k)].value)
            /\ UNCHANGED <<context_store, ttl_store, cache, lock, now, context_json, taskVars, busVars,
                           redis>>
       ELSE LET c1 == IF use_cache THEN CacheAfterGet(cache, k, now) ELSE cache IN
            IF lock
            THEN \* waits for the store lock, which is never released
                 /\ cache' = c1
                 /\ lastGet' = NoCall
                 /\ UNCHANGED <<context_store, ttl_store, lock, now, context_json, taskVars, busVars,
                                redis>>
            ELSE IF k \notin DOMAIN context_store
            THEN /\ cache' = c1
                 /\ lastGet' = GetRecord(k, use_cache, FALSE, None)
                 /\ UNCHANGED <<context_store, ttl_store, lock, now, context_json, taskVars, busVars,
                                redis>>
            ELSE IF k \in DOMAIN ttl_store /\ ttl_store[k] < now
            THEN \* _delete_context is awaited while self._lock is held: asyncio.Lock
                 \* is not reentrant, the call never returns and the lock stays held
                 /\ cache' = c1
                 /\ lock' = TRUE
                 /\ lastGet' = Pending(k, use_cache)
                 /\ UNCHANGED <<context_store, ttl_store, now, context_json, taskVars, busVars, redis>>
            ELSE /\ cache' = CacheUpdate(c1, k, context_store[k].value, now)
                 /\ \E put \in RedisOutcomes :
                        redis' = RedisSetex(redis, k, context_store[k].value, now, put)
                 /\ lastGet' = GetRecord(k, use_cache, FALSE, context_store[k].value)
                 /\ UNCHANGED <<context_store, ttl_store, lock, now, context_json, taskVars, busVars>>

(***************************************************************************)
(* list_keys(prefix).  The keys are returned in dict order; the model      *)
(* keeps the set of them.                                                  *)
(***************************************************************************)
KeyPrefixes == {<<>>, <<1, 2>>, <<2>>}

\* mutant of NotExpired: the TTL index is not looked at
NotExpired_Always(ts, k, t) == TRUE

\* key not in self._ttl_store or self._ttl_store[key] >= now
NotExpired(ts, k, t) == k \notin DOMAIN ts \/ ts[k] >= t

ListedKeys(cs, ts, prefix, t) ==
    {k \in DOMAIN cs : IsPrefix(prefix, k) /\ NotExpired(ts, k, t)}

ListKeys(prefix) ==
    /\ UNCHANGED fileVars
    /\ ~lock
    /\ lastGet' = [op |-> "list_keys", prefix |-> prefix,
                   result |-> ListedKeys(context_store, ttl_store, prefix, now),
                   store_before |-> context_store, ttl_before |-> ttl_store]
    /\ UNCHANGED <<context_store, ttl_store, cache, lock, now, context_json, taskVars, busVars, redis>>

(***************************************************************************)
(* One iteration of _cleanup_expired_loop: every key whose expiry is not   *)
(* after now is deleted through _delete_context.                           *)
(***************************************************************************)
\* mutant of ExpiredKeys: the scan finds nothing
ExpiredKeys_None(ts, t) == {}

ExpiredKeys(ts, t) == {k \in DOMAIN ts : ts[k] <= t}

RECURSIVE DeleteAll(_, _)
DeleteAll(st, ks) ==
    IF ks = {} THEN st
    ELSE LET k == CHOOSE x \in ks : TRUE
         IN  DeleteAll(Deleted(st, k, TRUE), ks \ {k})

RECURSIVE RedisDeleteAll(_, _)
RedisDeleteAll(r, ks) ==
    IF ks = {} THEN r
    ELSE LET k == CHOOSE x \in ks : TRUE
         IN  RedisDeleteAll(RedisDelete(r, k, TRUE), ks \ {k})

\* `for key in expired_keys: await self._delete_context(key)` over the keys ks
SweepKeys(ks) ==
    /\ UNCHANGED fileVars
    /\ ~lock
    /\ CanNotify
    /\ \E st \in {DeleteAll(<<context_store, ttl_store, cache, Bus>>, ks)} :
        /\ context_store' = st[1]
        /\ ttl_store' = st[2]
        /\ cache' = st[3]
        /\ queues' = st[4].queues
        /\ nextEvent' = st[4].next
    /\ \E failed \in (IF redis = <<>> THEN {{}} ELSE SUBSET ks) :
            redis' = RedisDeleteAll(redis, (ks \cap DOMAIN context_store) \ failed)
    /\ UNCHANGED <<lock, now, context_json, subscriptions, streams>>

CleanupExpired ==
    /\ ExpiredKeys(ttl_store, now) # {}
    /\ SweepKeys(ExpiredKeys(ttl_store, now))
    /\ lastGet' = NoCall
    /\ UNCHANGED taskVars

\* what one iteration of the sweep task found expired and the events it sent
SweepRecord(ks) ==
    [op |-> "sweep", expired |-> ks, retried |-> cleanup_task.pc = "backoff",
     sent |-> DeleteAll(<<context_store, ttl_store, cache, Bus>>, ks)[4].sent]

\* one iteration of the sweep task, followed by its asyncio.sleep(60)
SweepIteration ==
    /\ is_running
    /\ cleanup_task.pc \in {"sleep", "backoff"}
    /\ ExpiredKeys(ttl_store, now) # {}
    /\ SweepKeys(ExpiredKeys(ttl_store, now))
    /\ lastGet' = SweepRecord(ExpiredKeys(ttl_store, now))
    /\ cleanup_task' = Sleeping
    /\ UNCHANGED <<is_running, persistence_task, shutdown_call>>
    /\ UNCHANGED callVars

\* an iteration in which an exception is raised after some of the expired
\* keys were deleted: it is logged and the task sleeps 5 seconds
SweepFails ==
    /\ is_running
    /\ cleanup_task.pc \in {"sleep", "backoff"}
    /\ \E ks \in SUBSET ExpiredKeys(ttl_store, now) :
        /\ ks # ExpiredKeys(ttl_store, now)
        /\ SweepKeys(ks)
    /\ lastGet' = NoCall
    /\ cleanup_task' = [pc |-> "backoff"]
    /\ UNCHANGED <<is_running, persistence_task, shutdown_call>>
    /\ UNCHANGED callVars

(***************************************************************************)
(* bulk_operation(operations, fail_fast).  An operation is a dict; here    *)
(* [operation, key, ttl], the value of a set being the one of Values.      *)
(* With Redis disabled no await of the loop suspends, so the call runs to  *)
(* its end without another coroutine in between.                           *)
(***************************************************************************)
BulkOps ==
    {[operation |-> "set", key |-> <<1>>, ttl |-> <<>>],
     [operation |-> "delete", key |-> <<1>>, ttl |-> <<>>],
     [operation |-> "merge", key |-> <<1>>, ttl |-> <<>>]}

OperationLists == UNION {[1..n -> BulkOps] : n \in 0..MaxOps}

\* mutant of BulkNotify: every operation of a bulk call notifies
BulkNotify_Each == TRUE

\* the notify argument bulk_operation passes to set_context and _delete_context
BulkNotify == FALSE

\* r = [st, succeeded, failed, errors, outcomes, stopped] after the operations
\* seen so far; an entry of errors is {"operation": op, "error": str(e)},
\* kept as [operation |-> op]; outcomes keeps, per operation, "ok", "failed" (the call
\* returned False), "error" (it raised) or "skipped" (after the break)
BulkStep(r, op, fail_fast) ==
    IF r.stopped THEN [r EXCEPT !.outcomes = Append(@, "skipped")]
    ELSE IF op.operation \notin {"set", "delete"}
    THEN \* ValueError, caught by the except branch
         [r EXCEPT !.errors = Append(@, [operation |-> op]), !.failed = @ + 1,
                   !.outcomes = Append(@, "error"), !.stopped = fail_fast]
    ELSE LET success == IF op.operation = "set" THEN ContextItemValid(op.ttl)
                        ELSE op.key \in DOMAIN r.st[1]
             st == IF ~success THEN r.st
                   ELSE IF op.operation = "set"
                   THEN Stored(r.st, op.key, "v1", op.ttl, BulkNotify)
                   ELSE Deleted(r.st, op.key, BulkNotify)
         IN  IF success
             THEN [r EXCEPT !.st = st, !.succeeded = @ + 1, !.outcomes = Append(@, "ok")]
             ELSE IF fail_fast
             THEN \* failed is incremented, Exception is raised and caught by
                  \* the except branch, which increments failed again
                  [r EXCEPT !.failed = @ + 2, !.errors = Append(@, [operation |-> op]),
                            !.outcomes = Append(@, "failed"), !.stopped = TRUE]
             ELSE [r EXCEPT !.failed = @ + 1, !.outcomes = Append(@, "failed")]

RECURSIVE BulkLoop(_, _, _)
BulkLoop(r, operations, fail_fast) ==
    IF operations = <<>> THEN r
    ELSE BulkLoop(BulkStep(r, Head(operations), fail_fast), Tail(operations), fail_fast)

BulkOperation(operations, fail_fast) ==
    /\ UNCHANGED fileVars
    /\ ~lock
    /\ CanNotify
    /\ redis = <<>>
    /\ UNCHANGED redis
    /\ \E r \in {BulkLoop([st |-> <<context_store, ttl_store, cache, Bus>>, succeeded |-> 0,
                           failed |-> 0, errors |-> <<>>, outcomes |-> <<>>, stopped |-> FALSE],
                          operations, fail_fast)} :
       \E bus \in {IF r.succeeded > 0
                   THEN Notified(r.st[4], subscriptions, <<>>, "bulk_update")
                   ELSE r.st[4]} :
           /\ context_store' = r.st[1]
           /\ ttl_store' = r.st[2]
           /\ cache' = r.st[3]
           /\ queues' = bus.queues
           /\ nextEvent' = bus.next
           /\ lastGet' = [op |-> "bulk", operations |-> operations, fail_fast |-> fail_fast,
                          succeeded |-> r.succeeded, failed |-> r.failed, errors |-> r.errors,
                          outcomes |-> r.outcomes, sent |-> bus.sent]
    /\ UNCHANGED <<lock, now, context_json, taskVars, subscriptions, streams>>

(***************************************************************************)
(* subscribe_to_changes(key_prefix, event_types): the async generator.     *)
(* Its first step registers a new queue; each later step takes an event    *)
(* from the queue and yields it unless event_types is non-empty and does   *)
(* not hold the event's type; when the generator is closed or cancelled    *)
(* its finally block takes the queue out of the registry.  event_types is  *)
(* a set here, empty for None or [].                                       *)
(***************************************************************************)
\* the asyncio.Queue objects of the subscribers, in order of creation
QueueIds == {1, 2}

PrefixFilters == {<<>>, <<1, 2>>}

TypeFilters == {{}, {"context_change"}, {"file_change"}}

\* self._subscriptions[key_prefix].add(queue) on the defaultdict
Registered(subs, prefix, q) ==
    Put(subs, prefix, (IF prefix \in DOMAIN subs THEN subs[prefix] ELSE {}) \cup {q})

\* mutant of Unregistered: the finally block leaves the queue registered
Unregistered_Kept(subs, prefix, q) == subs

\* the finally block: remove the queue from self._subscriptions[key_prefix]
Unregistered(subs, prefix, q) == Put(subs, prefix, subs[prefix] \ {q})

SubscribeToChanges(prefix, types) ==
    /\ UNCHANGED fileVars
    /\ DOMAIN streams # QueueIds
    /\ LET q == Cardinality(DOMAIN streams) + 1 IN
        /\ subscriptions' = Registered(subscriptions, prefix, q)
        /\ queues' = Put(queues, q, <<>>)
        /\ streams' = Put(streams, q, [key_prefix |-> prefix, event_types |-> types,
                                       live |-> TRUE, yielded |-> <<>>, stopped_at |-> <<>>])
    /\ lastGet' = NoCall
    /\ UNCHANGED <<context_store, ttl_store, cache, lock, now, context_json, taskVars, nextEvent, redis>>

\* one turn of the generator's loop: queue.get(), the type filter, yield
StreamNext(q) ==
    /\ UNCHANGED fileVars
    /\ q \in DOMAIN streams /\ streams[q].live /\ queues[q] # <<>>
    /\ LET event == Head(queues[q]) IN
        /\ queues' = [queues EXCEPT ![q] = Tail(@)]
        /\ streams' = IF streams[q].event_types # {}
                          /\ event.event_type \notin streams[q].event_types
                       THEN streams
                       ELSE [streams EXCEPT ![q].yielded = Append(@, event)]
    /\ lastGet' = NoCall
    /\ UNCHANGED <<context_store, ttl_store, cache, lock, now, context_json, taskVars,
                   subscriptions, nextEvent, redis>>

\* the consumer is cancelled or closes the generator
StreamStop(q) ==
    /\ UNCHANGED fileVars
    /\ q \in DOMAIN streams /\ streams[q].live
    /\ subscriptions' = Unregistered(subscriptions, streams[q].key_prefix, q)
    /\ streams' = [streams EXCEPT ![q].live = FALSE, ![q].stopped_at = <<nextEvent>>]
    /\ lastGet' = NoCall
    /\ UNCHANGED <<context_store, ttl_store, cache, lock, now, context_json, taskVars, queues, nextEvent,
                   redis>>

(***************************************************************************)
(* _persist_data and _load_persisted_data.                                 *)
(* The snapshot dict refers to the live maps and is serialized by          *)
(* orjson.dumps afterwards; here the document is the content of the two    *)
(* maps at one instant between two steps of the event loop.  The file      *)
(* holds a JSON document: an object is a sequence of members in the order  *)
(* of the dict, a string and a number are tagged scalars.  The "timestamp" *)
(* member is written and never read back, it is left out of the document.  *)
(***************************************************************************)
Snapshot(cs, ts) == [context_store |-> cs, ttl_store |-> ts]

\* the keys of a dict in iteration order
KeyOrder(d) ==
    CHOOSE ks \in [1..Cardinality(DOMAIN d) -> DOMAIN d] :
        \A i, j \in DOMAIN ks : i # j => ks[i] # ks[j]

JsonString(text) == [type |-> "string", text |-> text]

JsonNumber(n) == [type |-> "number", n |-> n]

JsonBool(b) == [type |-> "bool", b |-> b]

\* a dict with str keys and already written values, as an object
JsonObject(d) ==
    [type |-> "object",
     members |-> [i \in 1..Cardinality(DOMAIN d) |->
                    [name |-> KeyOrder(d)[i], value |-> d[KeyOrder(d)[i]]]]]

\* one stored item
DumpsItem(item) ==
    [type |-> "object",
     members |-> <<[name |-> "value", value |-> JsonString(item.value)],
                   [name |-> "with_ttl", value |-> JsonBool(item.with_ttl)]>>]

\* orjson.dumps(snapshot)
Dumps(snapshot) ==
    [type |-> "object",
     members |-> <<[name |-> "context_store",
                    value |-> JsonObject([k \in DOMAIN snapshot.context_store |->
                                            DumpsItem(snapshot.context_store[k])])],
                   [name |-> "ttl_store",
                    value |-> JsonObject([k \in DOMAIN snapshot.ttl_store |->
                                            JsonNumber(snapshot.ttl_store[k])])]>>]

PersistData ==
    /\ UNCHANGED fileVars
    /\ ~lock
    /\ context_json' = <<Dumps(Snapshot(context_store, ttl_store))>>
    /\ lastGet' = NoCall
    /\ UNCHANGED <<context_store, ttl_store, cache, lock, now, busVars, redis, taskVars>>

(***************************************************************************)
(* _persist_data, step by step.  Under the lock the snapshot dict is built *)
(* from references to the two live maps; the lock is released;            *)
(* orjson.dumps(snapshot) runs in the thread pool while the event loop     *)
(* goes on with other coroutines, and serializes the maps as they are when *)
(* it runs (it keeps the GIL for the whole call); the bytes are written to *)
(* context.tmp, and context.tmp is renamed to context.json.  at_lock       *)
(* remembers what the maps held while the lock was held.                   *)
(***************************************************************************)
PersistSnapshot ==
    /\ UNCHANGED fileVars
    /\ is_running
    /\ persistence_task.pc = "sleep"
    /\ ~lock
    /\ persistence_task' = [pc |-> "dumps", at_lock |-> Snapshot(context_store, ttl_store)]
    /\ lastGet' = NoCall
    /\ UNCHANGED <<context_store, ttl_store, cache, lock, now, context_json, busVars, redis,
                   is_running, cleanup_task, shutdown_call>>
    /\ UNCHANGED callVars

PersistDumps ==
    /\ UNCHANGED fileVars
    /\ persistence_task.pc = "dumps"
    /\ persistence_task' = [pc |-> "write", at_lock |-> persistence_task.at_lock,
                            json_data |-> Dumps(Snapshot(context_store, ttl_store))]
    /\ lastGet' = NoCall
    /\ UNCHANGED <<context_store, ttl_store, cache, lock, now, context_json, busVars, redis,
                   is_running, cleanup_task, shutdown_call>>
    /\ UNCHANGED callVars

\* context.tmp has been written and closed
PersistWrite ==
    /\ UNCHANGED fileVars
    /\ persistence_task.pc = "write"
    /\ persistence_task' = [pc |-> "replace", at_lock |-> persistence_task.at_lock,
                            tmp |-> persistence_task.json_data]
    /\ lastGet' = NoCall
    /\ UNCHANGED <<context_store, ttl_store, cache, lock, now, context_json, busVars, redis,
                   is_running, cleanup_task, shutdown_call>>
    /\ UNCHANGED callVars

\* aiofiles.os.replace(temp_path, final_path)
PersistReplace ==
    /\ UNCHANGED fileVars
    /\ persistence_task.pc = "replace"
    /\ context_json' = <<persistence_task.tmp>>
    /\ persistence_task' = Sleeping
    /\ lastGet' = NoCall
    /\ UNCHANGED <<context_store, ttl_store, cache, lock, now, busVars, redis,
                   is_running, cleanup_task, shutdown_call>>
    /\ UNCHANGED callVars

(***************************************************************************)
(* shutdown().  It clears _is_running, cancels the sweep task and awaits   *)
(* it, cancels the persistence task and awaits it, and then runs           *)
(* _persist_data itself.  A cancelled loop leaves through its              *)
(* `except asyncio.CancelledError: break`.  A job already handed to the    *)
(* thread pool is not stopped by the cancellation: the rename a cancelled  *)
(* _persist_data was waiting for still takes place.  Each await of         *)
(* shutdown lets other coroutines run; no method of the manager refuses a  *)
(* call because shutdown has begun.                                        *)
(***************************************************************************)
\* mutant of Cancelled: the task goes on
Cancelled_Ignored(task) == task

\* task.cancel() and `await task`: the task has ended
Cancelled(task) == [pc |-> "done", cancelled_at |-> task.pc]

ShutdownBegin ==
    /\ UNCHANGED fileVars
    /\ is_running
    /\ shutdown_call.pc = "none"
    /\ is_running' = FALSE
    /\ cleanup_task' = Cancelled(cleanup_task)
    /\ shutdown_call' = [pc |-> "cancel_persistence"]
    /\ lastGet' = NoCall
    /\ UNCHANGED <<context_store, ttl_store, cache, lock, now, context_json, busVars, redis,
                   persistence_task>>
    /\ UNCHANGED callVars

ShutdownCancelPersistence ==
    /\ UNCHANGED fileVars
    /\ shutdown_call.pc = "cancel_persistence"
    /\ persistence_task' = Cancelled(persistence_task)
    /\ context_json' = IF persistence_task.pc = "replace" THEN <<persistence_task.tmp>>
                       ELSE context_json
    /\ shutdown_call' = [pc |-> "snapshot"]
    /\ lastGet' = NoCall
    /\ UNCHANGED <<context_store, ttl_store, cache, lock, now, busVars, redis,
                   is_running, cleanup_task>>
    /\ UNCHANGED callVars

\* shutdown's own _persist_data: the snapshot dict under the lock
ShutdownSnapshot ==
    /\ UNCHANGED fileVars
    /\ shutdown_call.pc = "snapshot"
    /\ ~lock
    /\ shutdown_call' = [pc |-> "dumps"]
    /\ lastGet' = NoCall
    /\ UNCHANGED <<context_store, ttl_store, cache, lock, now, context_json, busVars, redis,
                   is_running, cleanup_task, persistence_task>>
    /\ UNCHANGED callVars

\* serialized holds the maps as they are when orjson.dumps runs
ShutdownDumps ==
    /\ UNCHANGED fileVars
    /\ shutdown_call.pc = "dumps"
    /\ shutdown_call' = [pc |-> "write", serialized |-> Snapshot(context_store, ttl_store),
                         json_data |-> Dumps(Snapshot(context_store, ttl_store))]
    /\ lastGet' = NoCall
    /\ UNCHANGED <<context_store, ttl_store, cache, lock, now, context_json, busVars, redis,
                   is_running, cleanup_task, persistence_task>>
    /\ UNCHANGED callVars

ShutdownWrite ==
    /\ UNCHANGED fileVars
    /\ shutdown_call.pc = "write"
    /\ shutdown_call' = [pc |-> "replace", serialized |-> shutdown_call.serialized,
                         tmp |-> shutdown_call.json_data]
    /\ lastGet' = NoCall
    /\ UNCHANGED <<context_store, ttl_store, cache, lock, now, context_json, busVars, redis,
                   is_running, cleanup_task, persistence_task>>
    /\ UNCHANGED callVars

\* the rename, after which shutdown() returns
ShutdownReplace ==
    /\ UNCHANGED fileVars
    /\ shutdown_call.pc = "replace"
    /\ context_json' = <<shutdown_call.tmp>>
    /\ shutdown_call' = [pc |-> "returned"]
    /\ lastGet' = [op |-> "shutdown", serialized |-> shutdown_call.serialized,
                   sweep |-> cleanup_task.pc, persistence |-> persistence_task.pc,
                   cancelled_at |-> IF persistence_task.pc = "done"
                                    THEN persistence_task.cancelled_at ELSE "never"]
    /\ UNCHANGED <<context_store, ttl_store, cache, lock, now, busVars, redis,
                   is_running, cleanup_task, persistence_task>>
    /\ UNCHANGED callVars

\* orjson.loads: the value of the last member called name
Member(obj, name) ==
    obj.members[CHOOSE i \in DOMAIN obj.members :
                    /\ obj.members[i].name = name
                    /\ \A j \in DOMAIN obj.members : obj.members[j].name = name => j <= i].value

Names(obj) == {obj.members[i].name : i \in DOMAIN obj.members}

\* an object is read as a dict of its members' values
LoadsDict(obj) == [k \in Names(obj) |-> Member(obj, k)]

LoadsNumber(j) == j.n

LoadsItem(j) == [value |-> Member(j, "value").text, with_ttl |-> Member(j, "with_ttl").b]

\* data.get("context_store", {})
LoadedStore(file) ==
    IF file = <<>> \/ "context_store" \notin Names(file[1]) THEN EmptyDict
    ELSE [k \in Names(Member(file[1], "context_store")) |->
            LoadsItem(LoadsDict(Member(file[1], "context_store"))[k])]

\* data.get("ttl_store", {})
LoadedTtl(file) ==
    IF file = <<>> \/ "ttl_store" \notin Names(file[1]) THEN EmptyDict
    ELSE [k \in Names(Member(file[1], "ttl_store")) |->
            LoadsNumber(LoadsDict(Member(file[1], "ttl_store"))[k])]

\* initialize() has read the snapshot file
LoadRecord(file) == [op |-> "load", found |-> (file # <<>>)]

\* the process ends and a new ContextManager is constructed and initialized
Restart ==
    /\ UNCHANGED fileVars
    /\ context_store' = LoadedStore(context_json)
    /\ ttl_store' = LoadedTtl(context_json)
    /\ cache' = <<>>
    /\ lock' = FALSE
    /\ lastGet' = LoadRecord(context_json)
    /\ subscriptions' = EmptyDict
    /\ queues' = EmptyDict
    /\ streams' = EmptyDict
    /\ is_running' = TRUE
    /\ cleanup_task' = Sleeping
    /\ persistence_task' = Sleeping
    /\ shutdown_call' = NotCalled
    /\ UNCHANGED <<now, context_json, nextEvent, redis>>
    /\ calls' = [h \in Handlers |-> Idle]
    /\ lock_waiters' = <<>>
    /\ UNCHANGED applied

Advance ==
    /\ UNCHANGED fileVars
    /\ now + 1 <= MaxTime
    /\ now' = now + 1
    /\ lastGet' = NoCall
    /\ UNCHANGED <<context_store, ttl_store, cache, lock, context_json, taskVars, busVars, redis>>


(***************************************************************************)
(* ----------------------------- FileManager ----------------------------- *)
(* The storage root is modelled by its four areas:                         *)
(*   blobs     storage_root/<file_id>                 id       -> content   *)
(*   versions  storage_root/versions/<file_id>/v<n>   <<id,n>> -> content   *)
(*   metadata  storage_root/metadata/<stem>.json      stem     -> record    *)
(*   tmp       storage_root/tmp/upload_<file_id>      id       -> content   *)
(* A metadata stem is <<id, n>> for "<id>_v<n>.json" and <<id>> for        *)
(* "<id>.json"; a file_id argument is such a stem too, so that the string  *)
(* "<id>_v<n>" passed as a file_id names the file "<id>_v<n>.json".        *)
(* FileManager is constructed with context_manager=None: _publish_event    *)
(* returns without publishing.                                             *)
(***************************************************************************)
MaxUploads == 2         \* uploads started in one behaviour
max_file_size == 2      \* FileManager(max_file_size=...), in content units
default_limit == 100    \* list_files(..., limit=100)

\* upload names as <<stem, extension>>
FileNames == {<<"a", "txt">>, <<"b", "txt">>, <<"c", "exe">>}
allowed_extensions == {"txt", "pdf", "json", "md"}
Contents == {"c1", "c2", "huge"}
Size(c) == IF c = "huge" THEN max_file_size + 1 ELSE 1
FileIds == 1..MaxUploads
\* version arguments of get_file_metadata: <<>> is version=None
VersionArgs == {<<>>, <<1>>}
\* file_id arguments of get_file_metadata and delete_file: the id of the
\* first upload, bare and as the stem of its metadata file "<id>_v1.json"
FileIdArgs == {<<1>>, <<1, 1>>}


\* _validate_extension
ValidateExtension(name) == name[2] \in allowed_extensions

\* _calculate_checksum: SHA-256 of the bytes
Checksum(c) == <<"sha256", c>>

\* _get_metadata_path(file_id, version): "if version:" is false for None and 0
MetadataPath(file_id, version) ==
    IF version # <<>> /\ version[1] # 0 THEN file_id \o <<version[1]>> ELSE file_id

(***************************************************************************)
(* FileMetadata (pydantic_models.py): the fields declared with Field(...)  *)
(* are required; construction raises ValidationError when one is missing.  *)
(***************************************************************************)
RequiredFields == {"file_id", "filename", "content_type", "size", "checksum", "path"}

\* mutant of FileMetadataValid: `path` is not demanded
FileMetadataValid_PathOptional(fields) == (RequiredFields \ {"path"}) \subseteq fields

FileMetadataValid(fields) == RequiredFields \subseteq fields

\* keyword arguments of FileMetadata(...) in upload_file (both branches)
UploadFields ==
    {"file_id", "filename", "content_type", "size", "checksum", "metadata", "tags",
     "created_at", "updated_at", "version"}

\* keyword arguments of FileMetadata(...) in scan_and_register_existing_files
ScanFields ==
    {"file_id", "filename", "content_type", "size", "checksum", "created_at",
     "updated_at", "metadata", "version", "tags", "is_deleted"}

FileRecord(id, name, content, version, t, tags) ==
    [file_id |-> id, filename |-> name, checksum |-> Checksum(content),
     size |-> Size(content), version |-> version, is_deleted |-> FALSE,
     deleted_at |-> <<>>, updated_at |-> t, tags |-> tags]

\* get_file_metadata(file_id, version): the stems it can read
HasMetadata(md, file_id, version) == MetadataPath(file_id, version) \in DOMAIN md

\* _iter_metadata_files yields every *.json under metadata/ (twice); the
\* record each one holds
AllRecords(md) == {md[n] : n \in DOMAIN md}

\* _find_file_by_checksum: get_file_metadata(stem) of each metadata file,
\* the first whose checksum matches; directory order is not specified
ChecksumMatches(md, checksum) ==
    {md[MetadataPath(n, <<>>)] : n \in {m \in DOMAIN md : md[m].checksum = checksum}}

\* list_files() with default arguments keeps the records not marked deleted
ListedRecords(md) == {r \in AllRecords(md) : ~r.is_deleted}

(***************************************************************************)
(* Names and filters.  A filename is the sequence of the characters before *)
(* its last dot followed by its extension, <<"d", "/", "a", "txt">> for    *)
(* "d/a.txt"; a prefix argument is a sequence of characters (<<>> for      *)
(* None or ""), an extension argument is <<>> or <<ext>>, a tags argument  *)
(* is a set (empty for None or []).                                        *)
(***************************************************************************)
Stem(name) == SubSeq(name, 1, Len(name) - 1)

Ext(name) == name[Len(name)]

\* str.lower() on the characters and extensions of the model
Lower(ch) == CASE ch = "D" -> "d" [] ch = "A" -> "a" [] ch = "TXT" -> "txt" [] OTHER -> ch

\* replace('\\', '/').lower()
Normalized(str) == [i \in 1..Len(str) |-> Lower(IF str[i] = "\\" THEN "/" ELSE str[i])]

\* filename.lower().endswith("." + extension.lower())
EndsWith(name, extension) == Lower(Ext(name)) = Lower(extension[1])

\* the filters of list_files (lines 386-399)
ListMatch(r, prefix, extension, tags) ==
    /\ prefix # <<>> => IsPrefix(Normalized(prefix), Normalized(Stem(r.filename)))
    /\ extension # <<>> => EndsWith(r.filename, extension)
    /\ tags # {} => tags \subseteq r.tags

\* the filters of count_files (lines 438-446)
CountMatch(r, prefix, extension, tags) ==
    /\ prefix # <<>> => IsPrefix(prefix, Stem(r.filename))
    /\ extension # <<>> => EndsWith(r.filename, extension)
    /\ tags # {} => tags \subseteq r.tags

\* the order in which a directory walk yields the entries of S
RECURSIVE WalkOrder(_)
WalkOrder(S) ==
    IF S = {} THEN <<>>
    ELSE LET x == CHOOSE y \in S : TRUE IN <<x>> \o WalkOrder(S \ {x})

\* _iter_metadata_files: os.walk(metadata/) and then os.walk(metadata/)
\* again, so every "*.json" file is yielded twice; the record in each
IterMetadataFiles(md) ==
    LET once == WalkOrder(DOMAIN md)
    IN  [i \in 1..(2 * Len(once)) |-> md[(once \o once)[i]]]

\* list.sort(key=updated_at, reverse=True): stable, newest first
RECURSIVE SortedNewestFirst(_)
SortedNewestFirst(recs) ==
    IF recs = <<>> THEN <<>>
    ELSE LET rest == SortedNewestFirst(Tail(recs))
             r == Head(recs)
             \* r goes before the first element of rest that is not newer than it
             k == Cardinality({i \in 1..Len(rest) : rest[i].updated_at > r.updated_at})
         IN  SubSeq(rest, 1, k) \o <<r>> \o SubSeq(rest, k + 1, Len(rest))

\* list_files(prefix, extension, tags, skip, limit)
ListFiles(md, prefix, extension, tags, skip, limit) ==
    LET all_metadata_files == SelectSeq(IterMetadataFiles(md), LAMBDA r : ~r.is_deleted)
        filtered_files == SortedNewestFirst(
            SelectSeq(all_metadata_files, LAMBDA r : ListMatch(r, prefix, extension, tags)))
        last == IF skip + limit < Len(filtered_files) THEN skip + limit ELSE Len(filtered_files)
    IN  SubSeq(filtered_files, skip + 1, last)

\* count_files(prefix, extension, tags)
CountFiles(md, prefix, extension, tags) ==
    Len(SelectSeq(IterMetadataFiles(md),
                  LAMBDA r : ~r.is_deleted /\ CountMatch(r, prefix, extension, tags)))

\* get_file_metadata_by_path: first record of list_files() (newest first)
\* whose filename is the path
PathMatches(md, name) ==
    LET same == {r \in ListedRecords(md) : r.filename = name}
    IN  {r \in same : \A q \in same : q.updated_at <= r.updated_at}

\* get_file_versions: the entries of versions/<file_id>/ whose name ends in
\* ".json"; upload stores content there as "v<n>", never a ".json" file
VersionEntries(vs, id) == {<<"v", k[2], "">> : k \in {x \in DOMAIN vs : x[1] = id}}

GetFileVersions(vs, md, id) ==
    {md[<<id, e[2]>>] : e \in {x \in VersionEntries(vs, id) : x[3] = ".json" /\ <<id, x[2]>> \in DOMAIN md}}

RECURSIVE SetMax(_)
SetMax(S) ==
    IF S = {} THEN 0
    ELSE LET x == CHOOSE y \in S : TRUE
             m == SetMax(S \ {x})
         IN  IF x >= m THEN x ELSE m

NextVersion(vs, md, id) == SetMax({r.version : r \in GetFileVersions(vs, md, id)}) + 1

FileInit ==
    /\ blobs = EmptyDict
    /\ versions = EmptyDict
    /\ metadata = EmptyDict
    /\ tmp = EmptyDict
    /\ up = [h \in Handlers |-> Idle]
    /\ nextId = 1
    /\ clock = 1
    /\ done = EmptyDict
    /\ lastOp = NoCall

InFlight == {h \in Handlers : up[h].pc # "idle"}

\* entry of done for a finished upload_file call: its arguments, the calls
\* it ran concurrently with, how it ended (the returned record, if any) and
\* the place in the storage root where it left its content
Finished(u, outcome, record, wrote) ==
    [name |-> u.name, content |-> u.content, overwrite |-> u.overwrite,
     id |-> u.id, overlap |-> u.overlap, outcome |-> outcome, record |-> record,
     wrote |-> wrote]

\* where UploadMove puts the content of upload u
Wrote(u) == IF u.branch = "version" THEN <<"versions", u.target, u.version>>
            ELSE <<"blobs", u.target>>

(***************************************************************************)
(* The except handler of upload_file (lines 296-300): the temp file of the *)
(* call is removed if it still exists, and the exception is re-raised.     *)
(***************************************************************************)
\* mutant of CleanedUp: the handler leaves the temp file behind
CleanedUp_Skipped(tp, id) == tp

CleanedUp(tp, id) == IF id \in DOMAIN tp THEN Drop(tp, id) ELSE tp

(***************************************************************************)
(* upload_file, lines 192-214: validation, uuid, streaming to tmp/.        *)
(***************************************************************************)
UploadBegin(h, name, content, overwrite) ==
    /\ up[h].pc = "idle"
    /\ \A g \in Handlers : g < h => up[g].pc # "idle"   \* handlers are interchangeable
    /\ nextId <= MaxUploads
    /\ LET u == [pc |-> "checksum", name |-> name, content |-> content,
                 overwrite |-> overwrite, id |-> nextId,
                 overlap |-> {up[g].id : g \in InFlight}]
       IN  IF ~ValidateExtension(name)
           THEN \* ValueError before any file is created
                /\ lastOp' = [op |-> "upload", result |-> "ValueError", why |-> "extension"]
                /\ UNCHANGED <<tmp, up, nextId>>
           ELSE IF Size(content) > max_file_size
           THEN \* ValueError while streaming into the temp file; the handler runs
                /\ lastOp' = [op |-> "upload", result |-> "ValueError", why |-> "size"]
                /\ tmp' = CleanedUp(Put(tmp, nextId, content), nextId)
                /\ UNCHANGED <<up, nextId>>
           ELSE /\ tmp' = Put(tmp, nextId, content)
                /\ nextId' = nextId + 1
                /\ up' = [g \in Handlers |->
                            IF g = h THEN u
                            ELSE IF up[g].pc # "idle" THEN [up[g] EXCEPT !.overlap = @ \cup {nextId}]
                            ELSE up[g]]
                /\ UNCHANGED lastOp
    /\ UNCHANGED <<blobs, versions, metadata, clock, done>>
    /\ UNCHANGED ctxVars

(***************************************************************************)
(* lines 216-223: checksum of the temp file and the same-content check.    *)
(***************************************************************************)
UploadDedup(h) ==
    /\ up[h].pc = "checksum"
    /\ LET u == up[h]
           existing == ChecksumMatches(metadata, Checksum(tmp[u.id]))
       IN  IF existing # {} /\ ~u.overwrite
           THEN \E r \in existing :
                /\ tmp' = Drop(tmp, u.id)
                /\ done' = Put(done, u.id, Finished(u, "existing", <<r>>, <<>>))
                /\ up' = [up EXCEPT ![h] = Idle]
           ELSE /\ up' = [up EXCEPT ![h].pc = "lookup"]
                /\ UNCHANGED <<tmp, done>>
    /\ UNCHANGED <<blobs, versions, metadata, nextId, clock, lastOp>>
    /\ UNCHANGED ctxVars

(***************************************************************************)
(* lines 225-231: lookup by name and choice of the branch.                 *)
(***************************************************************************)
UploadLookup(h) ==
    /\ up[h].pc = "lookup"
    /\ LET u == up[h]
           by_name == PathMatches(metadata, u.name)
       IN  IF by_name # {} /\ ~u.overwrite
           THEN \E r \in by_name :
                up' = [up EXCEPT ![h] =
                         [u EXCEPT !.pc = "move"] @@
                         [branch |-> "version", target |-> r.file_id,
                          version |-> NextVersion(versions, metadata, r.file_id)]]
           ELSE up' = [up EXCEPT ![h] =
                         [u EXCEPT !.pc = "move"] @@
                         [branch |-> "new", target |-> u.id, version |-> 1]]
    /\ UNCHANGED <<blobs, versions, metadata, tmp, nextId, clock, done, lastOp>>
    /\ UNCHANGED ctxVars

(***************************************************************************)
(* lines 233-236 and 265-268: the temp file is renamed into place          *)
(* (os.rename replaces an existing target).                                *)
(***************************************************************************)
UploadMove(h) ==
    /\ up[h].pc = "move"
    /\ LET u == up[h] IN
        /\ IF u.branch = "version"
           THEN /\ versions' = Put(versions, <<u.target, u.version>>, tmp[u.id])
                /\ UNCHANGED blobs
           ELSE /\ blobs' = Put(blobs, u.target, tmp[u.id])
                /\ UNCHANGED versions
        /\ tmp' = Drop(tmp, u.id)
        /\ up' = [up EXCEPT ![h].pc = "record"]
    /\ UNCHANGED <<metadata, nextId, clock, done, lastOp>>
    /\ UNCHANGED ctxVars

(***************************************************************************)
(* An I/O error (OSError) raised by the checksum pass, a directory read or *)
(* the rename, before the content has been moved: the handler runs.        *)
(***************************************************************************)
UploadFail(h) ==
    /\ up[h].pc \in {"checksum", "lookup", "move"}
    /\ tmp' = CleanedUp(tmp, up[h].id)
    /\ done' = Put(done, up[h].id, Finished(up[h], "OSError", <<>>, <<>>))
    /\ up' = [up EXCEPT ![h] = Idle]
    /\ UNCHANGED <<blobs, versions, metadata, nextId, clock, lastOp>>
    /\ UNCHANGED ctxVars

(***************************************************************************)
(* lines 238-263 and 270-300: FileMetadata(...), _save_metadata, return;   *)
(* on an exception the handler removes the temp file if it still exists.   *)
(***************************************************************************)
UploadRecord(h) ==
    /\ up[h].pc = "record"
    /\ LET u == up[h]
           record == FileRecord(u.target, u.name, u.content, u.version, clock, {})
       IN  IF ~FileMetadataValid(UploadFields)
           THEN \* ValidationError; temp_path no longer exists, nothing is removed
                /\ done' = Put(done, u.id, Finished(u, "ValidationError", <<>>, Wrote(u)))
                /\ tmp' = CleanedUp(tmp, u.id)
                /\ UNCHANGED <<metadata, clock>>
           ELSE /\ metadata' = Put(metadata, MetadataPath(<<record.file_id>>, <<record.version>>), record)
                /\ clock' = clock + 1
                /\ done' = Put(done, u.id, Finished(u, IF u.branch = "new" THEN "file_created" ELSE "file_version_created",
                                                     <<record>>, Wrote(u)))
                /\ UNCHANGED tmp
    /\ up' = [up EXCEPT ![h] = Idle]
    /\ UNCHANGED <<blobs, versions, nextId, lastOp>>
    /\ UNCHANGED ctxVars

(***************************************************************************)
(* get_file_metadata(file_id, version): the record in the metadata file    *)
(* _get_metadata_path names, FileNotFoundError when there is no such file. *)
(* after_upload tells whether the upload_file call that drew this id had   *)
(* already ended when the call was made; delete_file also notes how many   *)
(* uploads had started by then.                                            *)
(***************************************************************************)
\* a metadata file that has been opened for writing and holds no text yet
EmptyFile == [text |-> ""]

\* FileMetadata.parse_raw(content): the record, or a ValidationError when
\* the text is not a complete JSON document
ParseRaw(content) == IF content = EmptyFile THEN <<"ValidationError">> ELSE <<content>>

GetFileMetadata(file_id, version) ==
    /\ lastOp' = [op |-> "read", file_id |-> file_id, version |-> version,
                  after_upload |-> file_id[1] \in DOMAIN done,
                  outcome |-> IF ~HasMetadata(metadata, file_id, version)
                              THEN "FileNotFoundError"
                              ELSE IF metadata[MetadataPath(file_id, version)] = EmptyFile
                              THEN "ValidationError"
                              ELSE "FileMetadata",
                  result |-> IF HasMetadata(metadata, file_id, version)
                             THEN ParseRaw(metadata[MetadataPath(file_id, version)])
                             ELSE <<"FileNotFoundError">>]
    /\ UNCHANGED <<blobs, versions, metadata, tmp, up, nextId, clock, done>>
    /\ UNCHANGED ctxVars

(***************************************************************************)
(* delete_file(file_id, permanent).                                        *)
(***************************************************************************)
DeleteResult(file_id, permanent, result) ==
    [op |-> "delete", file_id |-> file_id, permanent |-> permanent,
     after_upload |-> file_id[1] \in DOMAIN done, started |-> nextId - 1,
     result |-> result]

DeleteFile(file_id, permanent) ==
    /\ UNCHANGED ctxVars
    /\ IF ~HasMetadata(metadata, file_id, <<>>)
       THEN \* get_file_metadata raises FileNotFoundError
            /\ lastOp' = DeleteResult(file_id, permanent, "FileNotFoundError")
            /\ UNCHANGED <<blobs, versions, metadata, tmp, up, nextId, clock, done>>
       ELSE LET md == metadata[MetadataPath(file_id, <<>>)]
                has_blob == Len(file_id) = 1 /\ file_id[1] \in DOMAIN blobs
                has_versions == Len(file_id) = 1 /\ \E k \in DOMAIN versions : k[1] = file_id[1]
            IN  IF permanent
                THEN /\ blobs' = IF has_blob THEN Drop(blobs, file_id[1]) ELSE blobs
                     /\ IF has_versions
                        THEN \* aiofiles.os has no rmtree: AttributeError, raised
                             \* before the metadata file is removed
                             /\ lastOp' = DeleteResult(file_id, permanent, "AttributeError")
                             /\ UNCHANGED metadata
                        ELSE /\ metadata' = Drop(metadata, MetadataPath(file_id, <<>>))
                             /\ lastOp' = DeleteResult(file_id, permanent, "True")
                     /\ UNCHANGED <<versions, tmp, up, nextId, clock, done>>
                ELSE /\ metadata' = Put(metadata, MetadataPath(<<md.file_id>>, <<md.version>>),
                                        [md EXCEPT !.is_deleted = TRUE, !.updated_at = clock])
                     /\ clock' = clock + 1
                     /\ lastOp' = DeleteResult(file_id, permanent, "True")
                     /\ UNCHANGED <<blobs, versions, tmp, up, nextId, done>>

(***************************************************************************)
(* scan_and_register_existing_files.  os.walk(storage_root) visits every   *)
(* file below the root: the blobs, tmp/, versions/ and metadata/ (only a   *)
(* ".meta" suffix is skipped, and no file has it).                         *)
(***************************************************************************)
PhysicalFiles(bl, vs, md, tp) ==
    {[rel |-> <<ToString(i), "">>, content |-> bl[i]] : i \in DOMAIN bl}
    \cup {[rel |-> <<"tmp", ToString(i), "">>, content |-> tp[i]] : i \in DOMAIN tp}
    \cup {[rel |-> <<"versions", ToString(k[1]), ToString(k[2])>>, content |-> vs[k]] : k \in DOMAIN vs}
    \cup {[rel |-> <<"metadata", ToString(n), "json", "">>, content |-> ToString(md[n])] : n \in DOMAIN md}

\* the is_known loop: get_file_metadata(known_meta_id) reads "<id>.json"
IsKnown(md, rel) ==
    \E id \in {r.file_id : r \in AllRecords(md)} :
        /\ HasMetadata(md, <<id>>, <<>>)
        /\ md[MetadataPath(<<id>>, <<>>)].filename = rel

RECURSIVE Register(_, _)
\* st = [blobs, metadata, next, clock, count]; files still to visit
Register(st, files) ==
    IF files = {} THEN st
    ELSE LET f == CHOOSE x \in files : TRUE
             record == [FileRecord(st.next, f.rel, f.content, 1, st.clock, {"imported"})
                            EXCEPT !.size = 1]
             st1 == IF IsKnown(st.metadata, f.rel) \/ ~FileMetadataValid(ScanFields)
                    THEN st   \* known, or "Failed to register file" is logged
                    ELSE [blobs |-> Put(st.blobs, st.next, f.content),
                          metadata |-> Put(st.metadata, MetadataPath(<<st.next>>, <<1>>), record),
                          next |-> st.next + 1, clock |-> st.clock + 1,
                          count |-> st.count + 1]
         IN  Register(st1, files \ {f})

\* one run of the scan over a storage root: the root it leaves and its count
Scanned(bl, vs, md, tp, next, clk) ==
    Register([blobs |-> bl, metadata |-> md, next |-> next, clock |-> clk, count |-> 0],
             PhysicalFiles(bl, vs, md, tp))

ScanAndRegister ==
    LET st == Scanned(blobs, versions, metadata, tmp, nextId, clock)
    IN  /\ st.next <= MaxUploads + 1
        /\ blobs' = st.blobs
        /\ metadata' = st.metadata
        /\ nextId' = st.next
        /\ clock' = st.clock
        /\ lastOp' = [op |-> "scan", registered |-> st.count,
                      again |-> lastOp.op = "scan"]
        /\ UNCHANGED <<versions, tmp, up, done>>
        /\ UNCHANGED ctxVars

vars == <<ctxVars, fileVars>>

Init == CtxInit /\ FileInit

Next ==
    \/ \E k \in Keys, v \in Values, ttl \in TtlInputs : SetContext(k, v, ttl)
    \/ \E k \in Keys, use_cache \in BOOLEAN : GetContext(k, use_cache)
    \/ \E k \in Keys : DeleteContext(k)
    \/ \E prefix \in KeyPrefixes : ListKeys(prefix)
    \/ CleanupExpired
    \/ PersistData
    \/ Restart
    \/ Advance

Spec == Init /\ [][Next]_vars

FileNext ==
    \/ \E h \in Handlers, name \in FileNames, content \in Contents, overwrite \in BOOLEAN :
            UploadBegin(h, name, content, overwrite)
    \/ \E h \in Handlers : UploadDedup(h)
    \/ \E h \in Handlers : UploadLookup(h)
    \/ \E h \in Handlers : UploadMove(h)
    \/ \E h \in Handlers : UploadRecord(h)
    \/ \E h \in Handlers : UploadFail(h)
    \/ \E file_id \in FileIdArgs, version \in VersionArgs : GetFileMetadata(file_id, version)
    \/ \E file_id \in FileIdArgs, permanent \in BOOLEAN : DeleteFile(file_id, permanent)
    \/ ScanAndRegister


FileSpec == Init /\ [][FileNext]_vars

\* the context engine with subscribers and bulk calls, at one instant
BusNext ==
    \/ \E prefix \in PrefixFilters, types \in TypeFilters : SubscribeToChanges(prefix, types)
    \/ \E q \in QueueIds : StreamNext(q)
    \/ \E q \in QueueIds : StreamStop(q)
    \/ \E k \in Keys, v \in Values : SetContext(k, v, <<>>)
    \/ \E k \in Keys : DeleteContext(k)
    \/ \E operations \in OperationLists, fail_fast \in BOOLEAN :
            BulkOperation(operations, fail_fast)

BusSpec == Init /\ [][BusNext]_vars

\* the context engine with the steps of the persistence task interleaved
PersistNext ==
    \/ \E k \in Keys, v \in Values, ttl \in {<<>>, <<1>>} : SetContext(k, v, ttl)
    \/ \E k \in Keys : DeleteContext(k)
    \/ PersistSnapshot
    \/ PersistDumps
    \/ PersistWrite
    \/ PersistReplace
    \/ Restart

PersistSpec == Init /\ [][PersistNext]_vars

\* the context engine called with more keys than the local cache tier holds
ManyKeys == Keys \cup {<<2>>}

CacheNext ==
    \/ \E k \in ManyKeys, v \in Values : SetContext(k, v, <<>>)
    \/ \E k \in ManyKeys, use_cache \in BOOLEAN : GetContext(k, use_cache)
    \/ \E k \in ManyKeys : DeleteContext(k)
    \/ Advance

CacheSpec == Init /\ [][CacheNext]_vars

\* the context engine with its sweep task; an iteration of the task that
\* does not raise is eventually run as long as one is possible
SweepNext ==
    \/ \E k \in Keys, v \in Values, ttl \in {<<>>, <<1>>} : SetContext(k, v, ttl)
    \/ \E k \in Keys : DeleteContext(k)
    \/ Advance
    \/ SweepIteration
    \/ SweepFails

SweepSpec == Init /\ [][SweepNext]_vars /\ WF_vars(SweepIteration)

\* the context engine with its two background tasks, up to and after a
\* call of shutdown()
ShutdownNext ==
    \/ \E v \in Values, ttl \in {<<>>, <<1>>} : SetContext(<<1>>, v, ttl)
    \/ \E v \in Values : SetContext(<<1, 2>>, v, <<>>)
    \/ Advance
    \/ SweepIteration
    \/ PersistSnapshot
    \/ PersistDumps
    \/ PersistWrite
    \/ PersistReplace
    \/ ShutdownBegin
    \/ ShutdownCancelPersistence
    \/ ShutdownSnapshot
    \/ ShutdownDumps
    \/ ShutdownWrite
    \/ ShutdownReplace

ShutdownSpec == Init /\ [][ShutdownNext]_vars

(***************************************************************************)
(* The context engine constructed with a redis_url: both cache tiers.      *)
(* Calls are taken one after another; two values are written so that an    *)
(* overwrite can be told from the value it replaced.                       *)
(***************************************************************************)
TierValues == {"v1", "v2"}

TierInit ==
    /\ context_store = EmptyDict
    /\ ttl_store = EmptyDict
    /\ cache = <<>>
    /\ lock = FALSE
    /\ now = 0
    /\ context_json = <<>>
    /\ lastGet = NoCall
    /\ subscriptions = EmptyDict
    /\ queues = EmptyDict
    /\ streams = EmptyDict
    /\ nextEvent = 1
    /\ redis = <<EmptyDict>>
    /\ is_running = TRUE
    /\ cleanup_task = Sleeping
    /\ persistence_task = Sleeping
    /\ shutdown_call = NotCalled
    /\ calls = [h \in Handlers |-> Idle]
    /\ lock_waiters = <<>>
    /\ applied = <<>>
    /\ FileInit

TierNext ==
    \/ \E k \in Keys, v \in TierValues : SetContext(k, v, <<>>)
    \/ \E k \in Keys, use_cache \in BOOLEAN : GetContext(k, use_cache)
    \/ \E k \in Keys : DeleteContext(k)

TierSpec == TierInit /\ [][TierNext]_vars

(***************************************************************************)
(* Listing and counting.  list_files and count_files only read the         *)
(* "*.json" files under metadata/, so they are checked over the storage    *)
(* roots a FileManager can be constructed on: a metadata directory that    *)
(* already holds parseable records (every required field present), some of *)
(* them soft-deleted, some of them several versions of one identity.       *)
(***************************************************************************)
MaxStored == 2          \* metadata files in the directory at construction

Stems == {<<1, 1>>, <<1, 2>>, <<2, 1>>}

StoredNames == {<<"d", "/", "a", "txt">>, <<"D", "/", "a", "TXT">>}

Attrs == [filename : StoredNames, tags : {{}, {"t"}}, is_deleted : BOOLEAN, updated_at : {1, 2}]

StoredRecord(stem, a) ==
    [FileRecord(stem[1], a.filename, "c1", stem[2], a.updated_at, a.tags)
        EXCEPT !.is_deleted = a.is_deleted]

Stores ==
    {[n \in DOMAIN f |-> StoredRecord(n, f[n])] : f \in UNION {[S -> Attrs] : S \in {T \in SUBSET Stems : Cardinality(T) <= MaxStored}}}

PrefixArgs == {<<>>, <<"d">>, <<"D", "\\">>}
ExtensionArgs == {<<>>, <<"TXT">>}
TagsArgs == {{}, {"t"}}
SkipArgs == {0, 1}
LimitArgs == {1, default_limit}

ListInit ==
    /\ CtxInit
    /\ blobs = EmptyDict
    /\ versions = EmptyDict
    /\ metadata \in Stores
    /\ tmp = EmptyDict
    /\ up = [h \in Handlers |-> Idle]
    /\ nextId = 1
    /\ clock = 1
    /\ done = EmptyDict
    /\ lastOp = NoCall

\* a call of list_files and the list it returns
ListFilesCall(prefix, extension, tags, skip, limit) ==
    /\ lastOp' = [op |-> "list", prefix |-> prefix, extension |-> extension, tags |-> tags,
                  skip |-> skip, limit |-> limit,
                  result |-> ListFiles(metadata, prefix, extension, tags, skip, limit)]
    /\ UNCHANGED <<ctxVars, blobs, versions, metadata, tmp, up, nextId, clock, done>>

\* a call of count_files and the number it returns
CountFilesCall(prefix, extension, tags) ==
    /\ lastOp' = [op |-> "count", prefix |-> prefix, extension |-> extension, tags |-> tags,
                  result |-> CountFiles(metadata, prefix, extension, tags)]
    /\ UNCHANGED <<ctxVars, blobs, versions, metadata, tmp, up, nextId, clock, done>>

ListNext ==
    \/ \E prefix \in PrefixArgs, extension \in ExtensionArgs, tags \in TagsArgs,
          skip \in SkipArgs, limit \in LimitArgs :
            ListFilesCall(prefix, extension, tags, skip, limit)
    \/ \E prefix \in PrefixArgs, extension \in ExtensionArgs, tags \in TagsArgs :
            CountFilesCall(prefix, extension, tags)

ListSpec == ListInit /\ [][ListNext]_vars

(***************************************************************************)
(* _save_metadata, step by step.  The record is written in place:          *)
(* aiofiles.open(metadata_path, 'w') truncates the file at its final path, *)
(* the text reaches the file when it is written and the file is closed.    *)
(* Each await (open, write, close) runs in the thread pool, so other       *)
(* coroutines run between the steps.  The writer here is                   *)
(* delete_file(file_id, permanent=False) on a stored record; the reader is *)
(* get_file_metadata.                                                      *)
(***************************************************************************)
MaxSaves == 2           \* _save_metadata calls in one behaviour

\* delete_file: get_file_metadata, mark the record, enter _save_metadata
SoftDeleteBegin(h, file_id) ==
    /\ UNCHANGED ctxVars
    /\ up[h].pc = "idle"
    /\ clock <= MaxSaves
    /\ HasMetadata(metadata, file_id, <<>>)
    /\ IF metadata[MetadataPath(file_id, <<>>)] = EmptyFile
       THEN \* parse_raw raises
            /\ lastOp' = DeleteResult(file_id, FALSE, "ValidationError")
            /\ UNCHANGED <<blobs, versions, metadata, tmp, up, nextId, clock, done>>
       ELSE LET md == metadata[MetadataPath(file_id, <<>>)] IN
            /\ up' = [up EXCEPT ![h] =
                        [pc |-> "open", file_id |-> file_id,
                         path |-> MetadataPath(<<md.file_id>>, <<md.version>>),
                         previous |-> md,
                         record |-> [md EXCEPT !.is_deleted = TRUE, !.updated_at = clock]]]
            /\ clock' = clock + 1
            /\ lastOp' = NoCall
            /\ UNCHANGED <<blobs, versions, metadata, tmp, nextId, done>>

\* aiofiles.open(metadata_path, 'w'): the file exists and is empty
SaveOpen(h) ==
    /\ UNCHANGED ctxVars
    /\ up[h].pc = "open"
    /\ metadata' = Put(metadata, up[h].path, EmptyFile)
    /\ up' = [up EXCEPT ![h].pc = "write"]
    /\ lastOp' = NoCall
    /\ UNCHANGED <<blobs, versions, tmp, nextId, clock, done>>

\* f.write(metadata.json(indent=2)) and the close of the file: the text is
\* in the file, or json() raised (pydantic 2 rejects the indent keyword
\* with a TypeError) and the file is closed as it is
SaveWrite(h) ==
    /\ UNCHANGED ctxVars
    /\ up[h].pc = "write"
    /\ \E raised \in BOOLEAN :
        /\ metadata' = IF raised THEN metadata ELSE Put(metadata, up[h].path, up[h].record)
        /\ lastOp' = DeleteResult(up[h].file_id, FALSE, IF raised THEN "TypeError" ELSE "True")
    /\ up' = [up EXCEPT ![h] = Idle]
    /\ UNCHANGED <<blobs, versions, tmp, nextId, clock, done>>

\* the process dies; the files stay as they are
Crash ==
    /\ UNCHANGED ctxVars
    /\ InFlight # {}
    /\ up' = [h \in Handlers |-> Idle]
    /\ lastOp' = [op |-> "crash", writing |-> {up[h].path : h \in InFlight}]
    /\ UNCHANGED <<blobs, versions, metadata, tmp, nextId, clock, done>>

StemArgs == {<<1, 1>>, <<2, 1>>}

SaveNext ==
    \/ \E h \in Handlers, file_id \in StemArgs : SoftDeleteBegin(h, file_id)
    \/ \E h \in Handlers : SaveOpen(h)
    \/ \E h \in Handlers : SaveWrite(h)
    \/ \E file_id \in StemArgs : GetFileMetadata(file_id, <<>>)
    \/ Crash

SaveSpec == ListInit /\ [][SaveNext]_vars

(***************************************************************************)
(* set_context, _delete_context and the sweep step by step, with the       *)
(* remote tier enabled.  A coroutine runs without interruption from one    *)
(* suspension to the next.  `async with self._lock` suspends only when the *)
(* lock is held or has a waiter ahead (asyncio.Lock wakes its waiters      *)
(* oldest first); `await self._redis.setex(...)` and                       *)
(* `await self._redis.delete(...)` always suspend, inside the block under  *)
(* the store lock; `async with self._cache_lock` never suspends, as the    *)
(* blocks under that lock have no await, and queue.put on an unbounded     *)
(* queue never suspends.  So a call has two places where it can stand:     *)
(* waiting for the store lock ("acquire") and waiting for Redis with the   *)
(* store changed and the lock held ("setex", "redis_delete").              *)
(***************************************************************************)
MaxCalls == 3           \* set and delete calls that change the store in one behaviour

\* the sweep task among the waiters of the lock
SweepTask == 0

\* mutant of LockFree: the lock is taken whoever holds it
LockFree_Always == TRUE

\* asyncio.Lock.acquire returns without suspending
LockFree == ~lock /\ lock_waiters = <<>>

\* mutant of Woken: the oldest waiter goes on while the lock is still held
Woken_Early(t) == lock_waiters # <<>> /\ Head(lock_waiters) = t

\* the lock was released and t is its oldest waiter
Woken(t) == ~lock /\ lock_waiters # <<>> /\ Head(lock_waiters) = t

Begun ==
    Cardinality({i \in DOMAIN applied : applied[i].by # SweepTask})
        + Cardinality({h \in Handlers : calls[h].pc = "acquire"})

\* one change of the store; event is the number of the event sent for it,
\* once _notify_subscribers has put it on a queue
Mutation(by, operation, key) ==
    [by |-> by, operation |-> operation, key |-> key, event |-> <<>>]

\* the entry of `applied` after _notify_subscribers ran with bus as result
Announced(ap, n, bus) ==
    [ap EXCEPT ![n].event = IF bus.next = nextEvent THEN <<>> ELSE <<nextEvent>>]

\* set_context from the lock to the await of self._redis.setex
SetTakesLock(h, k, v, ttl) ==
    /\ context_store' = Put(context_store, k, [value |-> v, with_ttl |-> (ttl # <<>>)])
    /\ ttl_store' = TtlAfterSet(ttl_store, k, ttl, now)
    /\ lock' = TRUE
    /\ applied' = Append(applied, Mutation(h, "set", k))
    /\ calls' = [calls EXCEPT ![h] = [pc |-> "setex", op |-> "set", key |-> k, value |-> v,
                                      ttl |-> ttl, at |-> now, n |-> Len(applied) + 1]]

SetBegin(h, k, v, ttl) ==
    /\ UNCHANGED fileVars
    /\ redis # <<>>
    /\ calls[h] = Idle
    /\ Begun < MaxCalls
    /\ IF LockFree
       THEN /\ SetTakesLock(h, k, v, ttl)
            /\ UNCHANGED lock_waiters
       ELSE /\ calls' = [calls EXCEPT ![h] = [pc |-> "acquire", op |-> "set", key |-> k,
                                              value |-> v, ttl |-> ttl]]
            /\ lock_waiters' = Append(lock_waiters, h)
            /\ UNCHANGED <<context_store, ttl_store, lock, applied>>
    /\ lastGet' = NoCall
    /\ UNCHANGED <<cache, now, context_json, busVars, redis, is_running, cleanup_task,
                   persistence_task, shutdown_call>>

SetAcquired(h) ==
    /\ UNCHANGED fileVars
    /\ calls[h].pc = "acquire" /\ calls[h].op = "set"
    /\ Woken(h)
    /\ SetTakesLock(h, calls[h].key, calls[h].value, calls[h].ttl)
    /\ lock_waiters' = Tail(lock_waiters)
    /\ lastGet' = NoCall
    /\ UNCHANGED <<cache, now, context_json, busVars, redis, is_running, cleanup_task,
                   persistence_task, shutdown_call>>

\* Redis answered (or raised): the local cache, the event, the release
SetFinish(h) ==
    /\ UNCHANGED fileVars
    /\ calls[h].pc = "setex"
    /\ \E ok \in BOOLEAN : redis' = RedisSetex(redis, calls[h].key, calls[h].value, now, ok)
    /\ cache' = CacheUpdate(cache, calls[h].key, calls[h].value, calls[h].at)
    /\ \E bus \in {Notified(Bus, subscriptions, calls[h].key, "set")} :
        /\ queues' = bus.queues
        /\ nextEvent' = bus.next
        /\ applied' = Announced(applied, calls[h].n, bus)
    /\ lock' = FALSE
    /\ calls' = [calls EXCEPT ![h] = Idle]
    /\ lastGet' = NoCall
    /\ UNCHANGED <<context_store, ttl_store, lock_waiters, now, context_json, subscriptions,
                   streams, is_running, cleanup_task, persistence_task, shutdown_call>>

\* _delete_context from the lock to the await of self._redis.delete, or to
\* its `return False`
DeleteTakesLock(h, k) ==
    IF k \notin DOMAIN context_store
    THEN /\ calls' = [calls EXCEPT ![h] = Idle]
         /\ UNCHANGED <<context_store, ttl_store, lock, applied>>
    ELSE /\ context_store' = Drop(context_store, k)
         /\ ttl_store' = TtlAfterDelete(ttl_store, k)
         /\ lock' = TRUE
         /\ applied' = Append(applied, Mutation(h, "delete", k))
         /\ calls' = [calls EXCEPT ![h] = [pc |-> "redis_delete", op |-> "delete", key |-> k,
                                           n |-> Len(applied) + 1]]

DeleteBegin(h, k) ==
    /\ UNCHANGED fileVars
    /\ redis # <<>>
    /\ calls[h] = Idle
    /\ Begun < MaxCalls
    /\ IF LockFree
       THEN /\ DeleteTakesLock(h, k)
            /\ UNCHANGED lock_waiters
       ELSE /\ calls' = [calls EXCEPT ![h] = [pc |-> "acquire", op |-> "delete", key |-> k]]
            /\ lock_waiters' = Append(lock_waiters, h)
            /\ UNCHANGED <<context_store, ttl_store, lock, applied>>
    /\ lastGet' = NoCall
    /\ UNCHANGED <<cache, now, context_json, busVars, redis, is_running, cleanup_task,
                   persistence_task, shutdown_call>>

DeleteAcquired(h) ==
    /\ UNCHANGED fileVars
    /\ calls[h].pc = "acquire" /\ calls[h].op = "delete"
    /\ Woken(h)
    /\ DeleteTakesLock(h, calls[h].key)
    /\ lock_waiters' = Tail(lock_waiters)
    /\ lastGet' = NoCall
    /\ UNCHANGED <<cache, now, context_json, busVars, redis, is_running, cleanup_task,
                   persistence_task, shutdown_call>>

DeleteFinish(h) ==
    /\ UNCHANGED fileVars
    /\ calls[h].pc = "redis_delete"
    /\ \E ok \in BOOLEAN : redis' = RedisDelete(redis, calls[h].key, ok)
    /\ cache' = CacheDelete(cache, calls[h].key)
    /\ \E bus \in {Notified(Bus, subscriptions, calls[h].key, "delete")} :
        /\ queues' = bus.queues
        /\ nextEvent' = bus.next
        /\ applied' = Announced(applied, calls[h].n, bus)
    /\ lock' = FALSE
    /\ calls' = [calls EXCEPT ![h] = Idle]
    /\ lastGet' = NoCall
    /\ UNCHANGED <<context_store, ttl_store, lock_waiters, now, context_json, subscriptions,
                   streams, is_running, cleanup_task, persistence_task, shutdown_call>>

(***************************************************************************)
(* One iteration of _cleanup_expired_loop, step by step.  The list of      *)
(* expired keys is built without the lock; _delete_context is then awaited *)
(* for each key of the list in turn.  The list follows the order of the    *)
(* _ttl_store dict, which the model does not keep: any order is taken.     *)
(***************************************************************************)
Orders(S) ==
    {f \in [1..Cardinality(S) -> S] : \A i, j \in 1..Cardinality(S) : i # j => f[i] # f[j]}

\* the keys of the list that _delete_context returns False for
RECURSIVE SkipMissing(_, _)
SkipMissing(todo, cs) ==
    IF todo = <<>> \/ Head(todo) \in DOMAIN cs THEN todo
    ELSE SkipMissing(Tail(todo), cs)

\* the sweep goes on with the keys of todo after it released the lock (or
\* before it first asks for it); w are the other waiters of the lock and ap
\* the changes made so far.  It stops at its next suspension.
SweepResume(todo, w, ap) ==
    IF todo = <<>>
    THEN [task |-> Sleeping, lock |-> FALSE, waiters |-> w, store |-> context_store,
          ttl |-> ttl_store, applied |-> ap]
    ELSE IF w # <<>>
    THEN [task |-> [pc |-> "acquire", todo |-> todo], lock |-> FALSE,
          waiters |-> Append(w, SweepTask), store |-> context_store, ttl |-> ttl_store,
          applied |-> ap]
    ELSE LET t == SkipMissing(todo, context_store) IN
         IF t = <<>>
         THEN [task |-> Sleeping, lock |-> FALSE, waiters |-> w, store |-> context_store,
               ttl |-> ttl_store, applied |-> ap]
         ELSE [task |-> [pc |-> "redis_delete", key |-> Head(t), todo |-> Tail(t),
                         n |-> Len(ap) + 1,
                         expired |-> Head(t) \in DOMAIN ttl_store /\ ttl_store[Head(t)] <= now],
               lock |-> TRUE, waiters |-> w, store |-> Drop(context_store, Head(t)),
               ttl |-> TtlAfterDelete(ttl_store, Head(t)),
               applied |-> Append(ap, Mutation(SweepTask, "delete", Head(t)))]

SweepScan ==
    /\ UNCHANGED fileVars
    /\ redis # <<>>
    /\ is_running
    /\ cleanup_task = Sleeping
    /\ ExpiredKeys(ttl_store, now) # {}
    /\ \E todo \in Orders(ExpiredKeys(ttl_store, now)) :
       \E r \in {IF lock
                 THEN [task |-> [pc |-> "acquire", todo |-> todo], lock |-> TRUE,
                       waiters |-> Append(lock_waiters, SweepTask), store |-> context_store,
                       ttl |-> ttl_store, applied |-> applied]
                 ELSE SweepResume(todo, lock_waiters, applied)} :
            /\ cleanup_task' = r.task
            /\ lock' = r.lock
            /\ lock_waiters' = r.waiters
            /\ context_store' = r.store
            /\ ttl_store' = r.ttl
            /\ applied' = r.applied
    /\ lastGet' = NoCall
    /\ UNCHANGED <<cache, now, context_json, busVars, redis, is_running, persistence_task,
                   shutdown_call, calls>>

\* the sweep gets the lock it waited for, for the key at the head of its list
SweepAcquired ==
    /\ UNCHANGED fileVars
    /\ cleanup_task.pc = "acquire"
    /\ Woken(SweepTask)
    /\ \E r \in {SweepResume(IF Head(cleanup_task.todo) \in DOMAIN context_store
                             THEN <<Head(cleanup_task.todo)>> \o Tail(cleanup_task.todo)
                             ELSE Tail(cleanup_task.todo),
                             IF Head(cleanup_task.todo) \in DOMAIN context_store
                             THEN <<>> ELSE Tail(lock_waiters),
                             applied)} :
            /\ cleanup_task' = r.task
            /\ lock' = r.lock
            /\ lock_waiters' = IF Head(cleanup_task.todo) \in DOMAIN context_store
                               THEN Tail(lock_waiters) ELSE r.waiters
            /\ context_store' = r.store
            /\ ttl_store' = r.ttl
            /\ applied' = r.applied
    /\ lastGet' = NoCall
    /\ UNCHANGED <<cache, now, context_json, busVars, redis, is_running, persistence_task,
                   shutdown_call, calls>>

\* Redis answered the delete: the local cache, the event, the release, and
\* on to the next key of the list
SweepFinish ==
    /\ UNCHANGED fileVars
    /\ cleanup_task.pc = "redis_delete"
    /\ \E ok \in BOOLEAN : redis' = RedisDelete(redis, cleanup_task.key, ok)
    /\ cache' = CacheDelete(cache, cleanup_task.key)
    /\ \E bus \in {Notified(Bus, subscriptions, cleanup_task.key, "delete")} :
        /\ queues' = bus.queues
        /\ nextEvent' = bus.next
        /\ \E r \in {SweepResume(cleanup_task.todo, lock_waiters,
                                 Announced(applied, cleanup_task.n, bus))} :
            /\ cleanup_task' = r.task
            /\ lock' = r.lock
            /\ lock_waiters' = r.waiters
            /\ context_store' = r.store
            /\ ttl_store' = r.ttl
            /\ applied' = r.applied
    /\ lastGet' = NoCall
    /\ UNCHANGED <<now, context_json, subscriptions, streams, is_running, persistence_task,
                   shutdown_call, calls>>

\* concurrent set and delete calls with subscribers listening
StepNext ==
    \/ \E prefix \in PrefixFilters : SubscribeToChanges(prefix, {})
    \/ \E q \in QueueIds : StreamNext(q)
    \/ \E h \in Handlers, k \in Keys, v \in Values : SetBegin(h, k, v, <<>>)
    \/ \E h \in Handlers : SetAcquired(h)
    \/ \E h \in Handlers : SetFinish(h)
    \/ \E h \in Handlers, k \in Keys : DeleteBegin(h, k)
    \/ \E h \in Handlers : DeleteAcquired(h)
    \/ \E h \in Handlers : DeleteFinish(h)

StepSpec == TierInit /\ [][StepNext]_vars

\* concurrent set calls and the sweep task
RaceNext ==
    \/ \E h \in Handlers, k \in Keys, v \in Values, ttl \in {<<>>, <<1>>} : SetBegin(h, k, v, ttl)
    \/ \E h \in Handlers : SetAcquired(h)
    \/ \E h \in Handlers : SetFinish(h)
    \/ Advance
    \/ SweepScan
    \/ SweepAcquired
    \/ SweepFinish

RaceSpec == TierInit /\ [][RaceNext]_vars

\* uploads into a storage root whose metadata directory already holds
\* records, some of them soft-deleted; every stored record has the checksum
\* of content "c1"
DedupContents == {"c1", "c2"}

DedupNext ==
    \/ \E h \in Handlers, content \in DedupContents, overwrite \in BOOLEAN :
            UploadBegin(h, <<"a", "txt">>, content, overwrite)
    \/ \E h \in Handlers : UploadDedup(h)
    \/ \E h \in Handlers : UploadLookup(h)
    \/ \E h \in Handlers : UploadMove(h)
    \/ \E h \in Handlers : UploadFail(h)
    \/ \E h \in Handlers : UploadRecord(h)

DedupSpec == ListInit /\ [][DedupNext]_vars

(***************************************************************************)
(* ------------------------------- Claims -------------------------------- *)
(***************************************************************************)

\* C1: a get(key) with use_cache=true on a key that has an expiry returns the
\* stored value before the expiry instant and None once the expiry instant
\* has passed, whatever the sweep has done and whatever the cache holds.
C1_GetHonoursExpiry ==
    (lastGet.op = "get" /\ lastGet.use_cache /\ lastGet.has_ttl) =>
        /\ lastGet.before_expiry => lastGet.result = lastGet.value
        /\ lastGet.after_expiry => lastGet.result = None

\* C2: in every state the TTL index and the value map agree on every key:
\* a key is in the TTL index exactly when it is in the value map with an
\* entry that was set with an expiry.
C2_TtlIndexMatchesStore ==
    \A k \in Keys :
        k \in DOMAIN ttl_store <=> (k \in DOMAIN context_store /\ context_store[k].with_ttl)

\* C2 witness: a key with an expiry sits in both maps, another key that the
\* snapshot still holds with its expiry has been removed from both, and the
\* store has been saved.
C2_Witness ==
    /\ context_json # <<>>
    /\ \E k \in Keys :
        /\ k \in DOMAIN ttl_store /\ k \in DOMAIN context_store
        /\ \E j \in Keys \ {k} :
            /\ j \in DOMAIN LoadedTtl(context_json)
            /\ j \notin DOMAIN ttl_store /\ j \notin DOMAIN context_store

\* C3: N uploads performed one after another to the same path, with pairwise
\* distinct content and overwrite=true, return records that all carry the
\* same file_id and whose versions are 1..N in upload order.
C3_SequentialOverwriteVersions ==
    (/\ InFlight = {} /\ lastOp = NoCall /\ DOMAIN done # {}
     /\ \A i \in DOMAIN done :
            /\ done[i].overwrite /\ done[i].overlap = {} /\ done[i].name = done[1].name
            /\ done[i].outcome # "OSError"
     /\ \A i, j \in DOMAIN done : i # j => done[i].content # done[j].content)
    => /\ \A i \in DOMAIN done : done[i].record # <<>>
       /\ \A i \in DOMAIN done :
            /\ done[i].record[1].version = i
            /\ done[i].record[1].file_id = done[1].record[1].file_id

C5_SameContentOtherPath ==
    \A i, j \in DOMAIN done :
        (/\ i < j /\ i \notin done[j].overlap
         /\ done[i].content = done[j].content /\ done[i].name # done[j].name
         /\ done[i].outcome # "OSError" /\ done[j].outcome # "OSError"
         /\ \A k \in DOMAIN done : k < i => done[k].content # done[i].content)
        => /\ done[i].record # <<>>
           /\ done[j].record = done[i].record
           /\ done[j].wrote = <<>>

\* C6: an upload with overwrite=true whose content has the checksum of a
\* record left by an earlier upload returns that record, removes its temp
\* file and stores no new file identity or version: overwrite does not
\* bypass the same-content check.
C6_OverwriteKeepsDedup ==
    \A i, j \in DOMAIN done :
        (/\ i < j /\ i \notin done[j].overlap /\ done[j].overwrite
         /\ done[i].content = done[j].content
         /\ done[i].outcome # "OSError" /\ done[j].outcome # "OSError"
         /\ \A k \in DOMAIN done : k < i => done[k].content # done[i].content)
        => /\ done[i].record # <<>>
           /\ done[j].record = done[i].record
           /\ done[j].wrote = <<>>
           /\ done[j].id \notin DOMAIN tmp

\* C7: an upload with overwrite=false to a path that an earlier upload has
\* already filled, with content that no earlier upload had, fails with a
\* conflict and creates or changes no record and no stored content.
C7_NoOverwriteConflict ==
    \A i, j \in DOMAIN done :
        (/\ i < j /\ done[j].overlap = {} /\ ~done[j].overwrite
         /\ done[i].name = done[j].name /\ done[i].outcome # "OSError"
         /\ \A k \in DOMAIN done : k < j => done[k].content # done[j].content)
        => /\ done[j].record = <<>>
           /\ done[j].wrote = <<>>

C9_TwoUploadsTwoVersions ==
    (/\ InFlight = {} /\ lastOp = NoCall /\ DOMAIN done = {1, 2}
     /\ done[1].overlap = {} /\ done[1].name = done[2].name
     /\ done[1].content # done[2].content
     /\ ~done[1].overwrite /\ ~done[2].overwrite
     /\ done[1].outcome # "OSError" /\ done[2].outcome # "OSError")
    => /\ done[1].record # <<>> /\ done[2].record # <<>>
       /\ done[1].record[1].version = 1 /\ done[2].record[1].version = 2
       /\ done[1].record[1].file_id = done[2].record[1].file_id
       /\ GetFileVersions(versions, metadata, done[1].record[1].file_id)
            = {done[1].record[1], done[2].record[1]}
       /\ ListFiles(metadata, Stem(done[1].name), <<>>, {}, 0, default_limit)
            = <<done[2].record[1]>>

\* C10: whenever no upload is in progress, every content blob in the storage
\* root has a metadata record and every metadata record has its content
\* blob.
C10_BlobsAndMetadataPaired ==
    InFlight = {} =>
        /\ \A i \in DOMAIN blobs : \E n \in DOMAIN metadata : metadata[n].file_id = i
        /\ \A k \in DOMAIN versions :
                MetadataPath(<<k[1]>>, <<k[2]>>) \in DOMAIN metadata
        /\ \A n \in DOMAIN metadata :
                \/ metadata[n].file_id \in DOMAIN blobs
                \/ <<metadata[n].file_id, metadata[n].version>> \in DOMAIN versions

\* C11: after upload has returned a record R, read(R.file_id) with
\* version=None and read(R.file_id, R.version) succeed and return R (the only
\* version of a file uploaded once).
C11_ReadAfterUpload ==
    (/\ lastOp.op = "read" /\ lastOp.file_id = <<1>> /\ lastOp.after_upload
     /\ done[1].outcome \notin {"existing", "OSError"})
    => /\ done[1].record # <<>>
       /\ lastOp.result = done[1].record

C13_NoOrphanedTemp ==
    \A i \in DOMAIN tmp : \E h \in InFlight : up[h].id = i

C13_Witness ==
    /\ lastOp.op = "upload" /\ lastOp.why = "size"
    /\ \E i, j \in DOMAIN done :
        /\ done[i].outcome = "OSError" /\ done[j].outcome = "ValidationError"
    /\ tmp = EmptyDict

\* C14: delete(file_id, permanent=false) on the identity an upload has
\* created succeeds, persists its metadata with is_deleted = true and
\* deleted_at set, leaves the content in place, and the record is no longer
\* listed.
C14_SoftDeleteMarksRecord ==
    (/\ lastOp.op = "delete" /\ ~lastOp.permanent
     /\ lastOp.file_id = <<1>> /\ lastOp.after_upload
     /\ done[1].outcome \notin {"existing", "OSError"})
    => /\ lastOp.result = "True"
       /\ \E n \in DOMAIN metadata : metadata[n].file_id = 1
       /\ \A n \in DOMAIN metadata :
            metadata[n].file_id = 1 =>
                metadata[n].is_deleted /\ metadata[n].deleted_at # <<>>
       /\ 1 \in DOMAIN blobs
       /\ \A r \in ListedRecords(metadata) : r.file_id # 1

\* C15: delete(file_id, permanent=true) on the identity an upload has created
\* succeeds and removes its content, the content of its versions and all of
\* its metadata records; on an identity no upload has created it fails with
\* not-found.
C15_PermanentDeleteRemovesAll ==
    /\ (/\ lastOp.op = "delete" /\ lastOp.permanent
         /\ lastOp.file_id = <<1>> /\ lastOp.after_upload
         /\ done[1].outcome \notin {"existing", "OSError"})
        => /\ lastOp.result = "True"
           /\ 1 \notin DOMAIN blobs
           /\ \A k \in DOMAIN versions : k[1] # 1
           /\ \A n \in DOMAIN metadata : metadata[n].file_id # 1
    /\ (/\ lastOp.op = "delete" /\ lastOp.permanent
         /\ lastOp.file_id = <<1>> /\ nextId = 1)
        => lastOp.result = "FileNotFoundError"

\* C16: after the identity of a first upload has been soft-deleted, a later
\* upload of new content to the same path adds no version to it: it creates
\* a record with a fresh file_id at version 1.
C16_NoUploadIntoDeletedIdentity ==
    (/\ lastOp.op = "delete" /\ ~lastOp.permanent
     /\ lastOp.file_id = <<1>> /\ lastOp.after_upload /\ lastOp.started = 1
     /\ 2 \in DOMAIN done
     /\ done[1].outcome \notin {"existing", "OSError"} /\ done[2].outcome # "OSError"
     /\ done[2].name = done[1].name /\ done[2].content # done[1].content)
    => /\ lastOp.result = "True"
       /\ done[2].record # <<>>
       /\ done[2].record[1].file_id # 1
       /\ done[2].record[1].version = 1
       /\ done[2].wrote = <<"blobs", done[2].record[1].file_id>>

C18_ListReturnsMatchingCurrent ==
    lastOp.op = "list" =>
        LET res == lastOp.result
            wanted == {r \in AllRecords(metadata) :
                        /\ ~r.is_deleted
                        /\ \A q \in AllRecords(metadata) :
                                q.file_id = r.file_id => q.version <= r.version
                        /\ ListMatch(r, lastOp.prefix, lastOp.extension, lastOp.tags)}
            rest == Cardinality(wanted) - lastOp.skip
            size == IF rest < 0 THEN 0 ELSE IF rest < lastOp.limit THEN rest ELSE lastOp.limit
        IN  /\ \A i, j \in 1..Len(res) : i # j => res[i] # res[j]
            /\ \A i \in 1..Len(res) : res[i] \in wanted
            /\ \A i, j \in 1..Len(res) : i < j => res[i].updated_at >= res[j].updated_at
            /\ Len(res) = size

\* C19: for every store and every prefix, extension and tags, count returns
\* the number of records list returns for the same filters with skip = 0
\* and a limit larger than the store.
C19_CountEqualsListLength ==
    lastOp.op = "count" =>
        lastOp.result =
            Len(ListFiles(metadata, lastOp.prefix, lastOp.extension, lastOp.tags, 0, default_limit))

\* C20 as stated: after set(key, value, ttl), a ttl > 0 gives the key the
\* expiry now + ttl; a ttl that is not positive or is omitted still
\* succeeds, leaves the key without expiry and clears an earlier expiry.
C20_NonPositiveTtlSucceeds ==
    lastGet.op = "set" =>
        IF lastGet.ttl # <<>> /\ lastGet.ttl[1] > 0
        THEN lastGet.result =>
                /\ lastGet.key \in DOMAIN ttl_store
                /\ ttl_store[lastGet.key] = now + lastGet.ttl[1]
        ELSE /\ lastGet.result
             /\ lastGet.key \in DOMAIN context_store
             /\ lastGet.key \notin DOMAIN ttl_store

\* C20, amended: a set with ttl > 0 succeeds and gives the key the expiry
\* now + ttl; a set with ttl omitted succeeds, leaves the key without expiry
\* and clears an earlier expiry; a set with a ttl that is not positive fails
\* validation, returns failure and leaves the key's entry and expiry as
\* they were.
C20_SetExpiry ==
    lastGet.op = "set" =>
        LET k == lastGet.key
            expiry == IF k \in DOMAIN ttl_store THEN <<ttl_store[k]>> ELSE <<>>
        IN  CASE lastGet.ttl = <<>> ->
                    lastGet.result /\ k \in DOMAIN context_store /\ expiry = <<>>
              [] lastGet.ttl # <<>> /\ lastGet.ttl[1] > 0 ->
                    lastGet.result /\ k \in DOMAIN context_store
                        /\ expiry = <<now + lastGet.ttl[1]>>
              [] OTHER ->
                    /\ ~lastGet.result
                    /\ expiry = lastGet.expiry_before
                    /\ (k \in DOMAIN context_store) = lastGet.stored_before

\* a set without ttl has just cleared the expiry an earlier set gave the key
C20_Witness ==
    /\ lastGet.op = "set" /\ lastGet.result
    /\ lastGet.ttl = <<>> /\ lastGet.expiry_before # <<>>
    /\ lastGet.key \notin DOMAIN ttl_store

\* C21: a get(key) that misses the cache (or has use_cache=false) on an
\* entry whose expiry has passed returns, returns None, removes the key from
\* the value map and the TTL index and leaves the store lock released; on a
\* live entry it returns the stored value and puts it in the cache.
C21_ExpiredGetEvictsAndReturns ==
    /\ lastGet.op # "get_pending"
    /\ ~lock
    /\ (lastGet.op = "get" /\ ~lastGet.hit) =>
            IF lastGet.after_expiry
            THEN /\ lastGet.result = None
                 /\ lastGet.key \notin DOMAIN context_store
                 /\ lastGet.key \notin DOMAIN ttl_store
            ELSE /\ lastGet.result = lastGet.value
                 /\ lastGet.value # None => CacheHit(cache, lastGet.key, now)

C23_NoStaleReadAfterInvalidation ==
    (lastGet.op = "get" /\ lastGet.use_cache) =>
        lastGet.result \in {None, lastGet.value}

\* C24: list_keys(prefix) returns exactly the keys of the value map that
\* start with prefix and whose expiry, if any, has not passed at the call,
\* and the call changes neither the value map nor the TTL index.
C24_ListKeysLiveAndReadOnly ==
    lastGet.op = "list_keys" =>
        /\ lastGet.result =
                {k \in DOMAIN context_store :
                    /\ IsPrefix(lastGet.prefix, k)
                    /\ k \in DOMAIN ttl_store => ~(ttl_store[k] < now)}
        /\ context_store = lastGet.store_before
        /\ ttl_store = lastGet.ttl_before

\* list_keys has left out an expired key that is still stored and returned
\* a live one
C24_Witness ==
    /\ lastGet.op = "list_keys"
    /\ lastGet.result # {}
    /\ \E k \in DOMAIN context_store :
            /\ IsPrefix(lastGet.prefix, k) /\ k \notin lastGet.result
            /\ k \in DOMAIN ttl_store /\ ttl_store[k] < now

\* C25: with fail_fast=false bulk attempts every operation; succeeded is
\* the number of operations that succeeded, failed the number that failed
\* (a delete of a key that is not stored fails), and errors has exactly one
\* entry per failed operation, referencing that operation, in list order.
C25_BulkReportsEveryFailure ==
    (lastGet.op = "bulk" /\ ~lastGet.fail_fast) =>
        LET failing == {i \in 1..Len(lastGet.operations) : lastGet.outcomes[i] # "ok"}
        IN  /\ Len(lastGet.outcomes) = Len(lastGet.operations)
            /\ \A i \in 1..Len(lastGet.outcomes) : lastGet.outcomes[i] # "skipped"
            /\ lastGet.succeeded = Len(SelectSeq(lastGet.outcomes, LAMBDA o : o = "ok"))
            /\ lastGet.failed = Cardinality(failing)
            /\ LET marked == SelectSeq([i \in 1..Len(lastGet.operations) |->
                                            [n |-> i, operation |-> lastGet.operations[i]]],
                                        LAMBDA e : e.n \in failing)
               IN  lastGet.errors =
                        [j \in 1..Len(marked) |-> [operation |-> marked[j].operation]]

\* C26: with fail_fast=true bulk applies the operations in list order and
\* stops at the first that fails: later operations are not applied, the
\* result has succeeded = number applied before the failure, failed = 1 and
\* one error entry for the failing operation, so that succeeded + failed is
\* the number of operations attempted.
C26_BulkStopsAtFirstFailure ==
    (lastGet.op = "bulk" /\ lastGet.fail_fast) =>
        LET attempted == {i \in 1..Len(lastGet.outcomes) : lastGet.outcomes[i] # "skipped"}
            failing == {i \in attempted : lastGet.outcomes[i] # "ok"}
        IN  /\ \A i \in failing : \A j \in attempted : j <= i
            /\ lastGet.succeeded = Cardinality(attempted \ failing)
            /\ lastGet.failed = Cardinality(failing)
            /\ Len(lastGet.errors) = Cardinality(failing)
            /\ \A i \in failing : lastGet.errors[1].operation = lastGet.operations[i]
            /\ lastGet.succeeded + lastGet.failed = Cardinality(attempted)

\* C27 as stated: every bulk call sends no event for an individual set or
\* delete and sends exactly one aggregate bulk_update event, after its last
\* operation.
C27_BulkAlwaysOneAggregate ==
    lastGet.op = "bulk" => lastGet.sent = << <<"bulk_update", <<>> >> >>

\* C27, amended: a bulk call sends no event for an individual set or delete;
\* after its last operation it sends exactly one aggregate bulk_update
\* event if at least one operation succeeded and no event if none did; the
\* aggregate event is sent under the empty key and so reaches only the
\* subscribers registered with the empty prefix.
C27_BulkOneAggregateIfAnySucceeded ==
    /\ lastGet.op = "bulk" =>
            lastGet.sent = IF lastGet.succeeded > 0 THEN << <<"bulk_update", <<>> >> >> ELSE <<>>
    /\ \A q \in DOMAIN queues : \A i \in 1..Len(queues[q]) :
            queues[q][i].operation = "bulk_update" => streams[q].key_prefix = <<>>

\* a bulk call that applied a set and a delete has sent its one aggregate
\* event, and a subscriber's queue holds it
C27_Witness ==
    /\ lastGet.op = "bulk" /\ lastGet.succeeded = 2
    /\ \E i, j \in 1..Len(lastGet.operations) :
            /\ lastGet.operations[i].operation = "set"
            /\ lastGet.operations[j].operation = "delete"
    /\ Len(lastGet.sent) = 1
    /\ \E q \in DOMAIN queues :
            queues[q] # <<>> /\ queues[q][Len(queues[q])].operation = "bulk_update"

\* C28: persisting a snapshot and loading it into a fresh store reproduces
\* the persisted state: when the snapshot file is written, what a load of it
\* yields is the value map and the TTL index as they are in memory, key for
\* key and expiry for expiry; after a load the fresh store holds what the
\* file yields; and a get, right after the load, of a key whose loaded expiry
\* has already passed returns absent and leaves the lock released.
C28_PersistLoadRoundTrip ==
    [][/\ context_json' # context_json =>
            /\ LoadedStore(context_json') = context_store
            /\ LoadedTtl(context_json') = ttl_store
       /\ lastGet'.op = "load" =>
            /\ context_store' = LoadedStore(context_json)
            /\ ttl_store' = LoadedTtl(context_json)
       /\ (/\ lastGet.op = "load"
           /\ lastGet'.op \in {"get", "get_pending"}
           /\ lastGet'.key \in DOMAIN ttl_store
           /\ ttl_store[lastGet'.key] < now)
          => /\ lastGet'.op = "get"
             /\ lastGet'.result = None
             /\ ~lock']_vars

\* C29: an event is placed on a subscriber's queue only if its key starts
\* with the subscriber's key_prefix or that prefix is empty; it is yielded by
\* the subscriber's stream only if, besides, its type is in the requested
\* set or that set is empty; and no event occurs twice among the events a
\* subscriber has been given and those still waiting on its queue.
C29_OnlyMatchingEventsOnce ==
    \A q \in DOMAIN streams :
        LET given == streams[q].yielded \o queues[q] IN
        /\ \A i \in DOMAIN given :
                streams[q].key_prefix = <<>> \/ IsPrefix(streams[q].key_prefix, given[i].key)
        /\ \A i \in DOMAIN streams[q].yielded :
                \/ streams[q].event_types = {}
                \/ streams[q].yielded[i].event_type \in streams[q].event_types
        /\ \A i, j \in DOMAIN given : given[i].id = given[j].id => i = j

\* C29 witness: the second subscriber, with a type filter that names the
\* event's type, has been given the event of a mutation of key <<1>> while
\* the first one, still subscribed under the prefix <<1, 2>>, received
\* nothing.
C29_Witness ==
    /\ DOMAIN streams = {1, 2}
    /\ streams[1].live /\ streams[1].key_prefix = <<1, 2>> /\ streams[1].event_types = {}
    /\ streams[1].yielded = <<>> /\ queues[1] = <<>>
    /\ streams[2].event_types = {"context_change"}
    /\ Len(streams[2].yielded) = 1 /\ streams[2].yielded[1].key = <<1>>

C31_ReaderSeesCompleteRecord ==
    lastOp.op = "read" => lastOp.outcome \in {"FileMetadata", "FileNotFoundError"}

\* C32: whenever the document at the final snapshot path changes, the new
\* document is the serialization of the value map and the TTL index as they
\* stood while the store lock was held, and it arrives by the rename of the
\* fully written temp file; a set or delete that ran after the lock was
\* released does not show up in it.
C32_SnapshotIsStateAtLock ==
    [][context_json' # context_json =>
            /\ persistence_task.pc = "replace"
            /\ context_json' = <<persistence_task.tmp>>
            /\ persistence_task.tmp = Dumps(persistence_task.at_lock)]_vars

\* C33 as stated: when shutdown() returns, the sweep task and the
\* persistence task have ended, and the document at the final snapshot path
\* loads to the value map and the TTL index as they are at that moment.
C33_ShutdownSnapshotEqualsStore ==
    lastGet.op = "shutdown" =>
        /\ lastGet.sweep = "done" /\ lastGet.persistence = "done"
        /\ LoadedStore(context_json) = context_store
        /\ LoadedTtl(context_json) = ttl_store

\* C33, amended: when shutdown() returns, the sweep task and the persistence
\* task have ended and stay ended, and the document at the final snapshot
\* path is the one shutdown wrote after cancelling both: it loads to the
\* value map and the TTL index as they stood when shutdown serialized them,
\* which are the maps at the return unless a set or delete call changed
\* them in between.
C33_ShutdownSnapshotIsSerializedState ==
    /\ lastGet.op = "shutdown" =>
            /\ lastGet.sweep = "done" /\ lastGet.persistence = "done"
            /\ LoadedStore(context_json) = lastGet.serialized.context_store
            /\ LoadedTtl(context_json) = lastGet.serialized.ttl_store
    /\ shutdown_call.pc = "returned" =>
            /\ ~is_running /\ cleanup_task.pc = "done" /\ persistence_task.pc = "done"

\* C33 witness: shutdown returned after cancelling the persistence task in
\* the middle of an iteration, and the snapshot it left holds a key with an
\* expiry and is the store of that moment.
C33_Witness ==
    /\ lastGet.op = "shutdown"
    /\ lastGet.cancelled_at \in {"dumps", "write", "replace"}
    /\ DOMAIN LoadedTtl(context_json) # {}
    /\ LoadedStore(context_json) = context_store
    /\ LoadedTtl(context_json) = ttl_store

C35_CacheBoundedOldestEvicted ==
    [][/\ Len(cache') <= max_cache_size
       /\ (\/ lastGet'.op = "set" /\ lastGet'.result
           \/ lastGet'.op = "get" /\ ~lastGet'.hit /\ lastGet'.result # None) =>
            LET k == lastGet'.key
                before == IF lastGet'.op = "get" /\ lastGet'.use_cache
                          THEN CacheAfterGet(cache, k, now) ELSE cache
                gone == {i \in DOMAIN before : before[i].key \notin CacheKeys(cache')}
                kept == {i \in DOMAIN before : before[i].key \in CacheKeys(cache')
                                                /\ before[i].key # k}
                replaced == {i \in DOMAIN before : before[i].key = k}
            IN  /\ k \in CacheKeys(cache')
                /\ cache'[CacheIndex(cache', k)].expiry = now + cache_ttl
                /\ \A j \in kept : before[j] \in {cache'[n] : n \in DOMAIN cache'}
                /\ IF Len(before) >= max_cache_size
                   THEN /\ Cardinality(gone) <= MaxOf(1, max_cache_size \div 10)
                        /\ Cardinality(gone \cup replaced) >= MaxOf(1, max_cache_size \div 10)
                   ELSE gone = {}
                /\ \A i \in gone, j \in kept : before[i].expiry <= before[j].expiry]_vars

\* C35 witness: before any cache entry could expire, three keys are stored
\* and the full tier holds two of them, inserted at different times; the
\* third was evicted by the insert of the set that has just returned.
C35_Witness ==
    /\ lastGet.op = "set" /\ lastGet.result
    /\ now > 0 /\ now < cache_ttl
    /\ DOMAIN context_store = ManyKeys
    /\ Len(cache) = max_cache_size
    /\ \E i, j \in DOMAIN cache : cache[i].expiry < cache[j].expiry
    /\ \E k \in ManyKeys : k \notin CacheKeys(cache)

C37_SweepRemovesOnlyExpired ==
    cleanup_task.pc = "redis_delete" => cleanup_task.expired

\* C38: each subscriber receives its events in the order in which the set
\* and delete operations took effect in the store: of two events that a
\* stream has yielded or still has in its queue, the one received first
\* belongs to the change of the store that was made first, and each event
\* carries the operation and the key of its change.
C38_EventsInStoreOrder ==
    \A q \in DOMAIN streams :
        LET received == streams[q].yielded \o queues[q] IN
        /\ \A i \in DOMAIN received :
                \E n \in DOMAIN applied :
                    /\ applied[n].event = <<received[i].id>>
                    /\ applied[n].operation = received[i].operation
                    /\ applied[n].key = received[i].key
        /\ \A i, j \in DOMAIN received : i < j =>
                \E m, n \in DOMAIN applied :
                    /\ m < n
                    /\ applied[m].event = <<received[i].id>>
                    /\ applied[n].event = <<received[j].id>>

\* C38 witness: a subscriber has received the set of a key by one handler
\* and then its delete by the other handler, the two changes having been
\* made to the store one right after the other.
C38_Witness ==
    \E q \in DOMAIN streams :
        LET received == streams[q].yielded \o queues[q] IN
        /\ Len(received) = 2
        /\ received[1].operation = "set" /\ received[2].operation = "delete"
        /\ received[1].key = received[2].key
        /\ \E m, n \in DOMAIN applied :
                /\ applied[m].event = <<received[1].id>>
                /\ applied[n].event = <<received[2].id>>
                /\ applied[m].by # applied[n].by
                /\ n = m + 1

\* C39: upload never returns as its dedup result a record whose is_deleted
\* flag is true: every upload_file call that ended by returning an existing
\* record with the checksum of its content returned one that is not marked
\* deleted.
C39_DedupSkipsDeleted ==
    \A id \in DOMAIN done :
        done[id].outcome = "existing" => ~done[id].record[1].is_deleted


====
